---- MODULE Spec2Model ----
(***************************************************************************)
(* A model of the adaptive decision-gating core of kwstx/scorring_module:  *)
(* the HumanOverrideInterface feedback path, the RiskScoringEngine's       *)
(* adaptive multipliers and weight normalisation, the ClassificationEngine *)
(* (threshold band, violation window, preemptive escalation), the         *)
(* PreemptiveDetectionLayer, the ThresholdOptimizationEngine (versioned    *)
(* configurations) and the HistoricalFeedbackIntegrator with the two       *)
(* modules it calibrates.                                                  *)
(*                                                                         *)
(* Numbers.  The program computes with JavaScript doubles.  The model      *)
(* computes with integers in fixed-point units chosen per quantity so that *)
(* every sum and product the code forms on the model's inputs is exact:    *)
(*   confidence                       1e-1   (0.7  is 7)                   *)
(*   compliance probabilities         1e-3   (0.85 is 850)                 *)
(*   cost-overrun ratio               1e-2   (1.2  is 120)                 *)
(*   learning rates                   1e-4   (0.04 is 400)                 *)
(*   adaptive multipliers             1e-8   (1.0  is 100000000)           *)
(*   classification signals           1e-4   (0.5  is 5000)                *)
(*   thresholds, shift magnitude      1e-7   (72   is 720000000)           *)
(*   decision score, rounded band     1e-2   (72   is 7200)                *)
(*   outcome severity, failure signal 1e-2   (0.65 is 65)                  *)
(*   pattern risk lift                1e-8   (0.35 is 35000000)            *)
(* A toFixed(k) conversion is modelled as rounding to the nearest multiple *)
(* of 1e-k; a quotient that is not a multiple of its unit is rounded to    *)
(* the nearest one.  All inputs are finite numbers.                        *)
(***************************************************************************)
EXTENDS Integers, Sequences, FiniteSets, TLC

VARIABLES
    \* HumanOverrideInterface
    pendingRequests,       \* Map<string, OverrideRequest>
    overrideHistory,       \* OverrideRecord[]
    adaptationWindowSize,  \* readonly, set by the constructor
    overrideLearningRate,  \* readonly, set by the constructor (1e-3 units)
    nextRequestId,         \* the next fresh uuid
    \* RiskScoringEngine
    adaptiveMultipliers,   \* Record<RiskDimension, number> (1e-8 units)
    \* ClassificationEngine
    violationHistory,      \* ViolationEvent[]
    historyWindowSize,     \* readonly, set by the constructor
    requestedWindowSize,   \* the historyWindowSize the constructor was called with
    \* PreemptiveDetectionLayer
    options,               \* the readonly fields the constructor sets from its options
    history,               \* DownstreamOutcomeRecord[]
    patternMap,            \* Map<string, PatternAggregate>
    \* ThresholdOptimizationEngine
    optimizationOptions,   \* the readonly fields the constructor sets from its options
    versionHistory,        \* ConfigVersion[]
    pendingSignals,        \* OptimizationSignal[]
    signalCount,           \* the signals created so far
    appliedConfiguration,  \* the configuration last applied to the classification engine
    \* HistoricalFeedbackIntegrator, ImpactSimulationModule, ComplianceEstimator
    feedbackOptions,       \* the readonly fields the integrator's constructor sets
    feedbackHistory,       \* HistoricalFeedbackRecord[]
    feedbackCount,         \* the records passed to integrate so far
    assumptions,           \* ImpactSimulationModule.assumptions (1e-8 units)
    complianceCalibration, \* ComplianceEstimator stageBias, actionTypeViolationBias, driftBias
    \* the arguments of the read-only call under study (classify, scoreDecision, assess)
    args,
    \* what the last call returned or threw
    outcome,
    \* history variables (not program state): what has been done so far
    calibrationWrites,     \* the calibration writes, in order: the learning rate each used
    createdVersions,       \* every ConfigVersion as it was when created, by version number
    recorded,              \* every event passed to ClassificationEngine.recordOutcome, in order
    submitted,             \* every record pushed to overrideHistory, in order
    fedObservations,       \* every observation feedIntoScoringEngine passed on, in order
    reported,              \* every record PreemptiveDetectionLayer.recordOutcome pushed, in order
    answers                \* what classify and scoreDecision returned since the last write to their engines

ovVars == <<pendingRequests, overrideHistory, adaptationWindowSize,
            overrideLearningRate, nextRequestId, submitted, fedObservations>>
seVars == <<adaptiveMultipliers, calibrationWrites>>
ceVars == <<violationHistory, historyWindowSize, requestedWindowSize, recorded>>
pdVars == <<options, history, patternMap, reported>>
toVars == <<optimizationOptions, versionHistory, pendingSignals, signalCount,
            appliedConfiguration, createdVersions>>
hfVars == <<feedbackOptions, feedbackHistory, feedbackCount, assumptions, complianceCalibration>>
vars == <<ovVars, seVars, ceVars, pdVars, toVars, hfVars, args, outcome, answers>>

-----------------------------------------------------------------------------
(* Arithmetic helpers shared by the engines.                               *)

Max(a, b) == IF a >= b THEN a ELSE b

Min(a, b) == IF a <= b THEN a ELSE b

\* private clamp(value, min, max) of every engine: Math.min(Math.max(value, min), max)
clamp(value, lo, hi) == Min(Max(value, lo), hi)

\* num/den rounded to the nearest integer (half away from zero); den > 0
RoundDiv(num, den) ==
    IF num >= 0 THEN (2 * num + den) \div (2 * den)
    ELSE -((2 * (-num) + den) \div (2 * den))

RECURSIVE SumSeq(_)
SumSeq(s) == IF s = <<>> THEN 0 ELSE Head(s) + SumSeq(Tail(s))

\* Array.prototype.slice(-n) for n >= 1: the last n elements
LastN(s, n) == IF Len(s) <= n THEN s ELSE SubSeq(s, Len(s) - n + 1, Len(s))

-----------------------------------------------------------------------------
(* RiskScoringEngine: adaptive multipliers.                                *)

RiskDimensions ==
    {"operationalRisk", "regulatoryExposure", "financialCost", "reputationalImpact",
     "cooperativeSystemStability", "predictedComplianceProbability", "simulationImpact",
     "opportunityCostProjection", "strategicMisalignment"}

\* the dimensions in the order of the keys of baseWeights
DimensionOrder ==
    <<"operationalRisk", "regulatoryExposure", "financialCost", "reputationalImpact",
      "cooperativeSystemStability", "predictedComplianceProbability", "simulationImpact",
      "opportunityCostProjection", "strategicMisalignment">>

MUnit == 10000 * 10000          \* 1.0 in multiplier units (1e-8)

MultiplierMin == MUnit \div 2   \* 0.5

MultiplierMax == (5 * MUnit) \div 2   \* 2.5

LearningRateMin == 50           \* 0.005 in 1e-4 units

LearningRateMax == 2000         \* 0.2 in 1e-4 units

InitialMultipliers == [d \in RiskDimensions |-> MUnit]

\* clamp(learningRate, 0.005, 0.2), the rate a calibration write uses
EffectiveLearningRate(learningRate) == clamp(learningRate, LearningRateMin, LearningRateMax)

\* a multiplier after adding delta, not clamped
NudgeUnclamped(m, delta) == m + delta

\* a multiplier after adding delta (1e-8 units): clamp(m + delta, 0.5, 2.5)
Nudge(m, delta) == clamp(m + delta, MultiplierMin, MultiplierMax)

\* updateCalibrationFromFeedback raising cooperativeSystemStability and
\* reputationalImpact whether or not a stability incident occurred
updateCalibrationFromFeedbackAnyIncident(m, predictedCompliance, actualOutcome, learningRate) ==
    LET lr == EffectiveLearningRate(learningRate)
        stabilityIncidentOccurred == actualOutcome.stabilityIncidentOccurred
        costOverrunRatio == actualOutcome.costOverrunRatio
        observedCompliance == clamp(actualOutcome.complianceObserved, 0, 1000)
        complianceError == observedCompliance - predictedCompliance
        overrunPenalty == clamp((costOverrunRatio - 100) * lr * 100, 0, MUnit \div 4)
        relax == complianceError > 100 /\ ~stabilityIncidentOccurred
    IN  [d \in RiskDimensions |->
            CASE d = "regulatoryExposure" -> Nudge(m[d], -(complianceError * lr * 10))
              [] d = "operationalRisk" -> Nudge(m[d], -(complianceError * lr * 7))
              [] d = "cooperativeSystemStability" -> Nudge(m[d], lr * 10000)
              [] d = "reputationalImpact" -> Nudge(m[d], lr * 6000)
              [] d = "financialCost" ->
                    IF costOverrunRatio > 100 THEN Nudge(m[d], overrunPenalty) ELSE m[d]
              [] d = "predictedComplianceProbability" ->
                    IF relax THEN Nudge(m[d], -(lr * 4000)) ELSE m[d]
              [] OTHER -> m[d]]

\* updateCalibrationFromFeedback(predicted, actualOutcome, learningRate): the
\* multipliers afterwards.  predictedCompliance, complianceObserved in 1e-3 units,
\* costOverrunRatio in 1e-2 units, learningRate in 1e-4 units.
\* actualOutcome is [complianceObserved, stabilityIncidentOccurred, costOverrunRatio].
updateCalibrationFromFeedback(m, predictedCompliance, actualOutcome, learningRate) ==
    LET lr == EffectiveLearningRate(learningRate)
        stabilityIncidentOccurred == actualOutcome.stabilityIncidentOccurred
        costOverrunRatio == actualOutcome.costOverrunRatio
        observedCompliance == clamp(actualOutcome.complianceObserved, 0, 1000)
        complianceError == observedCompliance - predictedCompliance
        overrunPenalty == clamp((costOverrunRatio - 100) * lr * 100, 0, MUnit \div 4)
        relax == complianceError > 100 /\ ~stabilityIncidentOccurred
    IN  [d \in RiskDimensions |->
            CASE d = "regulatoryExposure" -> Nudge(m[d], -(complianceError * lr * 10))
              [] d = "operationalRisk" -> Nudge(m[d], -(complianceError * lr * 7))
              [] d = "cooperativeSystemStability" ->
                    IF stabilityIncidentOccurred THEN Nudge(m[d], lr * 10000) ELSE m[d]
              [] d = "reputationalImpact" ->
                    IF stabilityIncidentOccurred THEN Nudge(m[d], lr * 6000) ELSE m[d]
              [] d = "financialCost" ->
                    IF costOverrunRatio > 100 THEN Nudge(m[d], overrunPenalty) ELSE m[d]
              [] d = "predictedComplianceProbability" ->
                    IF relax THEN Nudge(m[d], -(lr * 4000)) ELSE m[d]
              [] OTHER -> m[d]]

-----------------------------------------------------------------------------
(* ClassificationEngine: the violation window.                             *)

SUnit == 100 * 100              \* 1.0 in signal units (1e-4)

\* constructor: historyWindowSize = Math.max(10, historyWindowSize)
ClassificationEngineWindow(requested) == Max(10, requested)

\* no classify or scoreDecision call has returned yet
NoAnswers == [classify |-> <<>>, scoreDecision |-> <<>>]

\* An optional number is a sequence: <<>> is undefined, <<v>> is the number v.
undefined == <<>>

\* the ViolationEvent recordOutcome builds: severity (1e-4 units) defaults to 0.6
\* for a violation and 0 otherwise, and is clamped to [0, 1]
ViolationEvent(violated, severity) ==
    [violated |-> violated,
     severity |-> clamp(IF severity = undefined
                        THEN (IF violated THEN 6000 ELSE 0)
                        ELSE severity[1], 0, SUnit)]

\* recordOutcome trimming to the oldest events (slice(0, n)) instead of the latest
recordOutcomeKeepingOldest(window, size, violated, severity) ==
    LET pushed == Append(window, ViolationEvent(violated, severity))
    IN  IF Len(pushed) > size THEN SubSeq(pushed, 1, size) ELSE pushed

\* recordOutcome(feedback): the window afterwards
recordOutcome(window, size, violated, severity) ==
    LET pushed == Append(window, ViolationEvent(violated, severity))
    IN  IF Len(pushed) > size THEN LastN(pushed, size) ELSE pushed

-----------------------------------------------------------------------------
(* ClassificationEngine: classify.                                         *)

TUnit == 10000 * 1000           \* 1.0 in threshold units (1e-7)

ClassificationStates == {"auto-approve", "flag-for-review", "block"}

baseThresholds == [autoApproveMin |-> 72 * TUnit, blockMax |-> 42 * TUnit]

minReviewGap == 12 * TUnit

maxShift == 18

\* private clamp01(value), for a value in units of 1/unit
clamp01(value, unit) == clamp(value, 0, unit)

\* log2(k) / log2(9) for k = 1..9 (1e-4 units): the normalised entropy of k equal
\* shares among the nine dimensions
NormalizedLog2 == <<0, 3155, 5000, 6309, 7325, 8155, 8856, 9464, 10000>>

\* estimateEntropy(scoreResult), for dimension scores whose clamped positive
\* values are all equal (1e-4 units)
estimateEntropy(dimensionScores) ==
    LET values == [d \in RiskDimensions |-> clamp01(dimensionScores[d], SUnit)]
        positive == {d \in RiskDimensions : values[d] > 0}
    IN  IF positive = {} THEN 0 ELSE clamp01(NormalizedLog2[Cardinality(positive)], SUnit)

\* computeViolationRate(events) as the fraction violations / events.length (0/1 if empty)
computeViolationRate(events) ==
    IF events = <<>> THEN [num |-> 0, den |-> 1]
    ELSE [num |-> Cardinality({i \in 1..Len(events) : events[i].violated}),
          den |-> Len(events)]

\* computeViolationTrendSnapshot with the severity sum divided by the number of
\* violating events instead of the length of the window
computeViolationTrendSnapshotOverViolations(window) ==
    IF window = <<>>
    THEN [violationRate |-> 0, momentum |-> 0, severityAdjustedRate |-> 0]
    ELSE LET total == Len(window)
             split == Max(1, total \div 2)
             older == SubSeq(window, 1, split)
             recent == SubSeq(window, split + 1, total)
             olderRate == computeViolationRate(older)
             recentRate == computeViolationRate(recent)
             momentumNum == recentRate.num * olderRate.den - olderRate.num * recentRate.den
                                + recentRate.den * olderRate.den
             momentumDen == 2 * recentRate.den * olderRate.den
             violations == Cardinality({i \in 1..total : window[i].violated})
             severitySum == SumSeq([i \in 1..total |->
                                IF window[i].violated
                                THEN Max(1000, window[i].severity) ELSE 0])
         IN  [violationRate |-> RoundDiv(recentRate.num * SUnit, recentRate.den),
              momentum |-> RoundDiv(clamp(momentumNum, 0, momentumDen) * SUnit, momentumDen),
              severityAdjustedRate |->
                  IF violations = 0 THEN 0
                  ELSE RoundDiv(clamp(severitySum, 0, violations * SUnit), violations)]

\* computeViolationTrendSnapshot(): the three rates, each rounded by toFixed(4)
computeViolationTrendSnapshot(window) ==
    IF window = <<>>
    THEN [violationRate |-> 0, momentum |-> 0, severityAdjustedRate |-> 0]
    ELSE LET total == Len(window)
             split == Max(1, total \div 2)
             older == SubSeq(window, 1, split)
             recent == SubSeq(window, split + 1, total)
             olderRate == computeViolationRate(older)
             recentRate == computeViolationRate(recent)
             \* (recentRate - olderRate + 1) / 2 as momentumNum / momentumDen
             momentumNum == recentRate.num * olderRate.den - olderRate.num * recentRate.den
                                + recentRate.den * olderRate.den
             momentumDen == 2 * recentRate.den * olderRate.den
             severitySum == SumSeq([i \in 1..total |->
                                IF window[i].violated
                                THEN Max(1000, window[i].severity) ELSE 0])
         IN  [violationRate |-> RoundDiv(recentRate.num * SUnit, recentRate.den),
              momentum |-> RoundDiv(clamp(momentumNum, 0, momentumDen) * SUnit, momentumDen),
              severityAdjustedRate |-> RoundDiv(clamp(severitySum, 0, total * SUnit), total)]

\* resolveState(decisionScore, thresholdBand): decisionScore in 1e-2 units, the
\* band in 1e-7 units
resolveState(decisionScore, thresholdBand) ==
    IF decisionScore * 100000 >= thresholdBand.autoApproveMin THEN "auto-approve"
    ELSE IF decisionScore * 100000 <= thresholdBand.blockMax THEN "block"
         ELSE "flag-for-review"

\* applyPreemptiveEscalation with the escalation threshold tested first and for
\* every base state
applyPreemptiveEscalationReviewFirst(baseState, preemptiveRiskLift, escalationThreshold, blockThreshold) ==
    IF preemptiveRiskLift >= escalationThreshold THEN "flag-for-review"
    ELSE IF preemptiveRiskLift >= blockThreshold THEN "block"
         ELSE baseState

\* applyPreemptiveEscalation(baseState, preemptiveRiskLift, escalationThreshold, blockThreshold)
applyPreemptiveEscalation(baseState, preemptiveRiskLift, escalationThreshold, blockThreshold) ==
    IF preemptiveRiskLift >= blockThreshold THEN "block"
    ELSE IF preemptiveRiskLift >= escalationThreshold /\ baseState = "auto-approve"
         THEN "flag-for-review"
         ELSE baseState

\* normalizeThresholdBand with autoApproveMin clamped to the range of blockMax
normalizeThresholdBandOneRange(band) ==
    LET autoApproveMin == clamp(band.autoApproveMin, 5 * TUnit, 70 * TUnit)
        blockMax == clamp(band.blockMax, 5 * TUnit, 70 * TUnit)
        center2 == autoApproveMin + blockMax
    IN  IF autoApproveMin - blockMax < minReviewGap
        THEN [autoApproveMin |-> clamp((center2 + minReviewGap) \div 2, 5 * TUnit, 70 * TUnit),
              blockMax |-> clamp((center2 - minReviewGap) \div 2, 5 * TUnit, 70 * TUnit)]
        ELSE [autoApproveMin |-> autoApproveMin, blockMax |-> blockMax]

\* normalizeThresholdBand(band), 1e-7 units; center2 is twice the center (the sum
\* of the two thresholds classify forms is even in these units)
normalizeThresholdBand(band) ==
    LET autoApproveMin == clamp(band.autoApproveMin, 50 * TUnit, 95 * TUnit)
        blockMax == clamp(band.blockMax, 5 * TUnit, 70 * TUnit)
        center2 == autoApproveMin + blockMax
    IN  IF autoApproveMin - blockMax < minReviewGap
        THEN [autoApproveMin |-> clamp((center2 + minReviewGap) \div 2, 50 * TUnit, 95 * TUnit),
              blockMax |-> clamp((center2 - minReviewGap) \div 2, 5 * TUnit, 70 * TUnit)]
        ELSE [autoApproveMin |-> autoApproveMin, blockMax |-> blockMax]

\* an optional number, or the default when it is undefined (the ?? operator)
OrElse(optional, default) == IF optional = undefined THEN default ELSE optional[1]

\* classify(scoreResult, context) on the given violation window.  scoreResult is
\* [decisionScore (1e-2), dimensionScores (1e-4)]; context is [riskPosture (1e-4),
\* entropyLevel?, recentViolationTrend?, preemptiveRiskLift?,
\* preemptiveEscalationThreshold?, preemptiveBlockThreshold?], all 1e-4.
\* baseState is classify's local of that name, which the rationale names when the
\* preemptive lift changed the state.
classify(scoreResult, context, window) ==
    LET riskPosture == clamp01(context.riskPosture, SUnit)
        entropyLevel == IF context.entropyLevel # undefined
                        THEN clamp01(context.entropyLevel[1], SUnit)
                        ELSE estimateEntropy(scoreResult.dimensionScores)
        violationSnapshot == IF context.recentViolationTrend # undefined
                             THEN context.recentViolationTrend[1]
                             ELSE computeViolationTrendSnapshot(window)
        \* 1e-5 units
        violationTrendSignal == clamp01(violationSnapshot.severityAdjustedRate * 7
                                            + violationSnapshot.momentum * 3, 10 * SUnit)
        \* 1e-7 units
        conservatismSignal == clamp01(riskPosture * 450 + entropyLevel * 250
                                          + violationTrendSignal * 30, TUnit)
        shiftMagnitude == (conservatismSignal - TUnit \div 2) * 2 * maxShift
        entropyBandExpansion == (entropyLevel * 1000 - TUnit \div 2) * 8
        thresholdBand == normalizeThresholdBand(
            [autoApproveMin |-> baseThresholds.autoApproveMin + shiftMagnitude
                                    + entropyBandExpansion,
             blockMax |-> baseThresholds.blockMax + shiftMagnitude + entropyBandExpansion])
        preemptiveRiskLift == clamp01(OrElse(context.preemptiveRiskLift, 0), SUnit)
        preemptiveEscalationThreshold ==
            clamp01(OrElse(context.preemptiveEscalationThreshold, 1400), SUnit)
        preemptiveBlockThreshold ==
            clamp01(OrElse(context.preemptiveBlockThreshold, 3000), SUnit)
        baseState == resolveState(scoreResult.decisionScore, thresholdBand)
        state == applyPreemptiveEscalation(baseState, preemptiveRiskLift,
                                           preemptiveEscalationThreshold,
                                           preemptiveBlockThreshold)
    IN  [state |-> state,
         thresholdBand |-> [blockMax |-> RoundDiv(thresholdBand.blockMax, 100000),
                            autoApproveMin |-> RoundDiv(thresholdBand.autoApproveMin, 100000)],
         normalizedSignals |-> [riskPosture |-> riskPosture,
                                entropyLevel |-> entropyLevel,
                                violationTrend |-> RoundDiv(violationTrendSignal, 10)],
         shiftMagnitude |-> RoundDiv(shiftMagnitude, 1000),
         baseState |-> baseState]

-----------------------------------------------------------------------------
(* PreemptiveDetectionLayer.                                               *)

\* constructor(options): the defaults of the six options (rates and lifts in 1e-2)
DefaultOptions ==
    [maxHistorySize |-> 500, minSamplesForActivation |-> 3,
     minFailureRateForActivation |-> 45, maxRiskLift |-> 35,
     reviewEscalationLiftThreshold |-> 14, blockEscalationLiftThreshold |-> 30]

\* String.prototype.toUpperCase on the strings the model uses
toUpperCase(str) ==
    CASE str = "deploy" -> "DEPLOY"
      [] str = "transfer" -> "TRANSFER"
      [] str = "core" -> "CORE"
      [] str = "edge" -> "EDGE"
      [] str = "planner" -> "PLANNER"
      [] str = "read" -> "READ"
      [] str = "write" -> "WRITE"
      [] OTHER -> str

\* the upper-case permission strings in the order Array.prototype.sort gives them
PermissionOrder == <<"READ", "WRITE">>

RECURSIVE SortBy(_, _)
SortBy(order, strs) ==
    IF order = <<>> THEN <<>>
    ELSE SelectSeq(strs, LAMBDA p : p = Head(order)) \o SortBy(Tail(order), strs)

\* normalizePermissions(permissions): upper-cased and sorted (the joined string is
\* kept as the sequence of its parts)
normalizePermissions(permissions) ==
    SortBy(PermissionOrder, [i \in 1..Len(permissions) |-> toUpperCase(permissions[i])])

\* getExposureBand(policyExposure): policyExposure as its exposure levels (1e-2)
getExposureBand(policyExposure) ==
    IF Len(policyExposure) = 0 THEN "LOW"
    ELSE LET total == SumSeq([i \in 1..Len(policyExposure) |->
                                clamp01(policyExposure[i], 100)])
         IN  IF total >= 66 * Len(policyExposure) THEN "HIGH"
             ELSE IF total >= 33 * Len(policyExposure) THEN "MEDIUM"
                  ELSE "LOW"

\* a signature string, kept as its parts; parts a kind does not use are empty
Signature(kind, actionType, layer, agentType, permissions, exposureBand) ==
    [kind |-> kind, actionType |-> actionType, layer |-> layer, agentType |-> agentType,
     permissions |-> permissions, exposureBand |-> exposureBand]

\* getSignaturesForDecision(decision) and getSignaturesForRecord(record): a
\* missing or empty agentType is 'UNKNOWN', a missing policyExposure is []
getSignatures(decision) ==
    LET actionType == toUpperCase(decision.actionType)
        layer == toUpperCase(decision.layer)
        agentType == IF decision.agentType = undefined THEN "UNKNOWN"
                     ELSE toUpperCase(decision.agentType[1])
        permissions == normalizePermissions(decision.permissions)
        exposureBand == getExposureBand(decision.policyExposure)
    IN  <<Signature("ACTION", actionType, "", "", <<>>, ""),
          Signature("ACTION|LAYER", actionType, layer, "", <<>>, ""),
          Signature("ACTION|AGENT", actionType, "", agentType, <<>>, ""),
          Signature("ACTION|PERMS", actionType, "", "", permissions, ""),
          Signature("ACTION|LAYER|AGENT", actionType, layer, agentType, <<>>, ""),
          Signature("ACTION|EXPOSURE", actionType, "", "", <<>>, exposureBand)>>

\* the elements of a sequence
Range(seq) == {seq[i] : i \in 1..Len(seq)}

\* computeRiskLift without the test of the sample size
computeRiskLiftAnySampleSize(opts, sampleSize, failureRate, weightedSeverity) ==
    IF failureRate < opts.minFailureRateForActivation * 100 THEN 0
    ELSE LET sampleConfidence ==
                 clamp01(RoundDiv(sampleSize * SUnit, opts.minSamplesForActivation + 4), SUnit)
             base == clamp01(failureRate * 65 + weightedSeverity * 25 + sampleConfidence * 10,
                             100 * SUnit)
         IN  clamp(base * opts.maxRiskLift, 0, opts.maxRiskLift * 100 * SUnit)

\* computeRiskLift(sampleSize, failureRate, weightedSeverity): the rates in 1e-4
\* units, base in 1e-6, the lift in 1e-8
computeRiskLift(opts, sampleSize, failureRate, weightedSeverity) ==
    IF sampleSize < opts.minSamplesForActivation THEN 0
    ELSE IF failureRate < opts.minFailureRateForActivation * 100 THEN 0
    ELSE LET sampleConfidence ==
                 clamp01(RoundDiv(sampleSize * SUnit, opts.minSamplesForActivation + 4), SUnit)
             base == clamp01(failureRate * 65 + weightedSeverity * 25 + sampleConfidence * 10,
                             100 * SUnit)
         IN  clamp(base * opts.maxRiskLift, 0, opts.maxRiskLift * 100 * SUnit)

\* the failureSignal of an event, clamped (1e-2 units)
weightedFailure(event) ==
    clamp01((IF event.complianceFailure THEN 65 ELSE 0)
                + (IF event.downstreamFailure THEN 35 ELSE 0), 100)

\* recomputePatterns, the body of its first loop: the aggregates after one more
\* event with the given signatures, weightedFailure and severity.
\* weightedFailureEvents in 1e-2 units, weightedSeverityTotal in 1e-4.
accumulate(aggregates, signatures, failure, severity) ==
    [signature \in (DOMAIN aggregates) \cup signatures |->
        LET existing == IF signature \in DOMAIN aggregates THEN aggregates[signature]
                        ELSE [signature |-> signature, sampleSize |-> 0,
                              weightedFailureEvents |-> 0, weightedSeverityTotal |-> 0,
                              preemptiveRiskLift |-> 0]
        IN  IF signature \in signatures
            THEN [existing EXCEPT !.sampleSize = @ + 1,
                                  !.weightedFailureEvents = @ + failure,
                                  !.weightedSeverityTotal = @ + failure * severity]
            ELSE existing]

\* recomputePatterns, its first loop over the history
RECURSIVE accumulateAll(_, _)
accumulateAll(aggregates, events) ==
    IF events = <<>> THEN aggregates
    ELSE accumulateAll(accumulate(aggregates, Range(getSignatures(Head(events))),
                                  weightedFailure(Head(events)), Head(events).severity),
                       Tail(events))

\* recomputePatterns, the body of its second loop: the lift of one aggregate
withRiskLift(opts, pattern) ==
    LET failureRate == IF pattern.sampleSize > 0
                       THEN RoundDiv(pattern.weightedFailureEvents * 100, pattern.sampleSize)
                       ELSE 0
        weightedSeverity == IF pattern.weightedFailureEvents > 0
                            THEN RoundDiv(pattern.weightedSeverityTotal * 100,
                                          pattern.weightedFailureEvents)
                            ELSE 0
    IN  [pattern EXCEPT !.preemptiveRiskLift =
            computeRiskLift(opts, pattern.sampleSize, failureRate, weightedSeverity)]

\* recomputePatterns(): the pattern map of the given history
recomputePatterns(opts, events) ==
    LET nextMap == accumulateAll(<<>>, events)
    IN  [signature \in DOMAIN nextMap |-> withRiskLift(opts, nextMap[signature])]

\* recordOutcome without the cut to maxHistorySize
pushOutcomeUnbounded(opts, events, record) ==
    Append(events, [record EXCEPT !.severity = clamp01(record.severity, 100)])

\* PreemptiveDetectionLayer.recordOutcome(record): the history afterwards
pushOutcome(opts, events, record) ==
    LET normalized == [record EXCEPT !.severity = clamp01(record.severity, 100)]
        pushed == Append(events, normalized)
    IN  IF Len(pushed) > opts.maxHistorySize THEN LastN(pushed, opts.maxHistorySize)
        ELSE pushed

\* the matched aggregates left in the order of the candidate signatures
sortByLiftKeepingOrder(matched) == matched

\* Array.prototype.sort((a, b) => b.preemptiveRiskLift - a.preemptiveRiskLift):
\* stable, descending by lift
RECURSIVE sortByLift(_)
sortByLift(matched) ==
    IF matched = <<>> THEN <<>>
    ELSE LET top == CHOOSE i \in 1..Len(matched) :
                        /\ \A j \in 1..Len(matched) :
                                matched[j].preemptiveRiskLift <= matched[i].preemptiveRiskLift
                        /\ \A j \in 1..(i - 1) :
                                matched[j].preemptiveRiskLift < matched[i].preemptiveRiskLift
             rest == [j \in 1..(Len(matched) - 1) |->
                        IF j < top THEN matched[j] ELSE matched[j + 1]]
         IN  <<matched[top]>> \o sortByLift(rest)

\* assess(decision) on the given pattern map: riskLift in 1e-4 units (toFixed(4));
\* a rationale line is kept as the values it prints (toFixed(2): 1e-2 units)
assess(opts, patterns, decision) ==
    LET candidateSignatures == getSignatures(decision)
        present == SelectSeq(candidateSignatures, LAMBDA sig : sig \in DOMAIN patterns)
        matched == [i \in 1..Len(present) |-> patterns[present[i]]]
    IN  IF Len(matched) = 0
        THEN [riskLift |-> 0, matchedPatternSignatures |-> <<>>,
              rationale |-> <<"No activated historical risk pattern matched this decision">>]
        ELSE LET strongest == CHOOSE a \in Range(matched) :
                                \A b \in Range(matched) :
                                    a.preemptiveRiskLift >= b.preemptiveRiskLift
                 sorted == sortByLift(matched)
                 line(m) ==
                    [signature |-> m.signature,
                     rate |-> IF m.sampleSize > 0
                              THEN RoundDiv(m.weightedFailureEvents, m.sampleSize) ELSE 0,
                     severity |-> IF m.weightedFailureEvents > 0
                                  THEN RoundDiv(m.weightedSeverityTotal, m.weightedFailureEvents)
                                  ELSE 0,
                     samples |-> m.sampleSize]
             IN  [riskLift |-> RoundDiv(clamp(strongest.preemptiveRiskLift, 0,
                                              opts.maxRiskLift * 100 * SUnit), SUnit),
                  matchedPatternSignatures |->
                        [i \in 1..Len(sorted) |-> sorted[i].signature],
                  rationale |-> [i \in 1..Min(3, Len(sorted)) |-> line(sorted[i])]]

\* recommendClassificationEscalation recommending flag-for-review for every lift
\* below the block threshold
recommendClassificationEscalationAlways(opts, assessment) ==
    IF assessment.riskLift >= opts.blockEscalationLiftThreshold * 100
    THEN [recommendedState |-> <<"block">>, escalationReason |-> "block threshold"]
    ELSE [recommendedState |-> <<"flag-for-review">>, escalationReason |-> "review threshold"]

\* recommendClassificationEscalation without the review tier
recommendClassificationEscalationBlockOnly(opts, assessment) ==
    IF assessment.riskLift >= opts.blockEscalationLiftThreshold * 100
    THEN [recommendedState |-> <<"block">>, escalationReason |-> "block threshold"]
    ELSE [recommendedState |-> undefined, escalationReason |-> "none required"]

\* recommendClassificationEscalation(assessment): recommendedState is null
\* (undefined here) when no escalation is required
recommendClassificationEscalation(opts, assessment) ==
    IF assessment.riskLift >= opts.blockEscalationLiftThreshold * 100
    THEN [recommendedState |-> <<"block">>, escalationReason |-> "block threshold"]
    ELSE IF assessment.riskLift >= opts.reviewEscalationLiftThreshold * 100
    THEN [recommendedState |-> <<"flag-for-review">>, escalationReason |-> "review threshold"]
    ELSE [recommendedState |-> undefined, escalationReason |-> "none required"]

-----------------------------------------------------------------------------
(* RiskScoringEngine: weight recalibration.  Un-normalised weights are in  *)
(* 1e-4 units and are kept to four decimals after each multiplication;    *)
(* a normalised weight is the fraction num / den.                          *)

\* applyAdaptiveMultiplierDeltas(deltas, learningRate): the batch variant of the
\* calibration write, with the same bounds.  deltas (1e-4 units) is a partial
\* record over the dimensions.
applyAdaptiveMultiplierDeltas(m, deltas, learningRate) ==
    LET lr == EffectiveLearningRate(learningRate)
    IN  [d \in RiskDimensions |->
            IF d \in DOMAIN deltas THEN Nudge(m[d], deltas[d] * lr) ELSE m[d]]

baseWeights ==
    [d \in RiskDimensions |->
        CASE d = "operationalRisk" -> 10000
          [] d = "regulatoryExposure" -> 10000
          [] d = "financialCost" -> 8000
          [] d = "reputationalImpact" -> 9000
          [] d = "cooperativeSystemStability" -> 10000
          [] d = "predictedComplianceProbability" -> 11000
          [] d = "simulationImpact" -> 12000
          [] d = "opportunityCostProjection" -> 10000
          [] d = "strategicMisalignment" -> 11500]

SensitivePermissions == {"WRITE", "DELETE", "ADMIN", "EXECUTE"}

\* weight *= num / den for each <<num, den>> of factors, in order
RECURSIVE MultiplyBy(_, _)
MultiplyBy(weight, factors) ==
    IF factors = <<>> THEN weight
    ELSE MultiplyBy(RoundDiv(weight * Head(factors)[1], Head(factors)[2]), Tail(factors))

\* the factor <<num, den>> if the condition holds, else no factor
When(condition, num, den) == IF condition THEN <<(<<num, den>>)>> ELSE <<>>

\* normalizeWeights without the clamp of negative weights to 0
normalizeWeightsUnclamped(weights) ==
    LET sum == SumSeq([i \in 1..Len(DimensionOrder) |-> weights[DimensionOrder[i]]])
    IN  IF sum <= 0
        THEN [d \in RiskDimensions |-> [num |-> 1, den |-> 9]]
        ELSE [d \in RiskDimensions |-> [num |-> weights[d], den |-> sum]]

\* normalizeWeights(weights): each weight as the fraction it is set to
normalizeWeights(weights) ==
    LET clamped == [d \in RiskDimensions |-> Max(0, weights[d])]
        sum == SumSeq([i \in 1..Len(DimensionOrder) |-> clamped[DimensionOrder[i]]])
    IN  IF sum <= 0
        THEN [d \in RiskDimensions |-> [num |-> 1, den |-> 9]]
        ELSE [d \in RiskDimensions |-> [num |-> clamped[d], den |-> sum]]

\* recalibrateWeights(decision, context, systemState) with the given adaptive
\* multipliers.  loadFactor, budgetPressure and dataSensitivity are in 1e-1 units;
\* a priority boost is a fraction [num, den]; a multiplier enters to two decimals.
recalibrateWeights(multipliers, decision, context, systemState) ==
    LET load == systemState.loadFactor
        incident == systemState.incidentActive
        alert == systemState.regulatoryAlert
        sensitivePermission ==
            \E i \in 1..Len(decision.permissions) :
                toUpperCase(decision.permissions[i]) \in SensitivePermissions
        budgetPressure == clamp01(OrElse(context.budgetPressure, 0), 10)
        dataSensitivity == clamp01(OrElse(context.dataSensitivity, 0), 10)
        priorities == context.dimensionPriorities
        boosted(d) == d \in DOMAIN priorities /\ priorities[d].num > 0
        factors(d) ==
            When(d = "cooperativeSystemStability", 100 + load * 8, 100)
            \o When(d = "operationalRisk", 100 + load * 4, 100)
            \o When(incident /\ d = "cooperativeSystemStability", 135, 100)
            \o When(incident /\ d = "reputationalImpact", 120, 100)
            \o When(alert /\ d = "regulatoryExposure", 140, 100)
            \o When(alert /\ d = "predictedComplianceProbability", 125, 100)
            \o When(alert /\ d = "reputationalImpact", 110, 100)
            \o When(sensitivePermission /\ d = "operationalRisk", 115, 100)
            \o When(sensitivePermission /\ d = "regulatoryExposure", 110, 100)
            \o When(sensitivePermission /\ d = "strategicMisalignment", 110, 100)
            \o When(d = "financialCost", 1000 + budgetPressure * 90, 1000)
            \o When(d = "opportunityCostProjection", 1000 + (10 - budgetPressure) * 35, 1000)
            \o When(d = "regulatoryExposure", 1000 + dataSensitivity * 70, 1000)
            \o When(d = "reputationalImpact", 1000 + dataSensitivity * 50, 1000)
            \o When(d = "opportunityCostProjection", 1000 + (10 - dataSensitivity) * 15, 1000)
            \o (IF boosted(d) THEN <<(<<priorities[d].num, priorities[d].den>>)>> ELSE <<>>)
            \o <<(<<RoundDiv(multipliers[d], MUnit \div 100), 100>>)>>
    IN  normalizeWeights([d \in RiskDimensions |-> MultiplyBy(baseWeights[d], factors(d))])

-----------------------------------------------------------------------------
(* RiskScoringEngine: dimension scores and the composite score.  Scores of *)
(* a DecisionObject are in 1e-2 units, amounts, seconds and USD are whole  *)
(* numbers; a dimension score is in 1e-4 units, kept to four decimals.     *)

\* computeOperationalRisk(decision, systemState)
computeOperationalRisk(decision, systemState) ==
    LET resources == decision.requiredResources
        criticalityFactor(resource) ==
            IF resource.criticality = "HIGH" THEN 10
            ELSE IF resource.criticality = "MEDIUM" THEN 6 ELSE 3
        \* 1e-4 units
        resourcePressure ==
            SumSeq([i \in 1..Len(resources) |->
                        criticalityFactor(resources[i]) * Min(resources[i].amount, 1000)])
        permissionBreadth == Min(Len(decision.permissions) * 2000, SUnit)
        loadAmplifier == clamp01(systemState.loadFactor * 1000, SUnit)
        computedResourceRisk ==
            clamp01(decision.resourceAnalysis.computationalCostScore * 70
                        + Min(decision.resourceAnalysis.bandwidthUtilizationMbps, 100) * 30,
                    SUnit)
    IN  clamp01(RoundDiv(resourcePressure * 35 + permissionBreadth * 20
                            + loadAmplifier * 15 + computedResourceRisk * 30, 100), SUnit)

\* computeRegulatoryExposure(decision, context)
computeRegulatoryExposure(decision, context) ==
    LET exposures == decision.policyExposure
        count == Len(exposures)
        exposureSum == SumSeq([i \in 1..count |-> clamp01(exposures[i].exposureLevel, 100)])
        violationCount == SumSeq([i \in 1..count |-> exposures[i].potentialViolations])
        violationFactor == Min(violationCount, 10)
        sensitivityAmplifier == clamp01(OrElse(context.dataSensitivity, 0), 10)
    IN  IF count = 0 THEN 0
        ELSE clamp01(RoundDiv(exposureSum * 70 + violationFactor * 200 * count
                                + sensitivityAmplifier * 100 * count, count), SUnit)

\* unitCostMap[resource.type] ?? 0.005 (1e-4 USD)
unitCost(type) ==
    CASE type = "CPU" -> 20
      [] type = "API_CALL" -> 100
      [] type = "NETWORK_EGRESS_MB" -> 15
      [] type = "STORAGE_GB" -> 200
      [] type = "HUMAN_REVIEW_MINUTES" -> 4000
      [] OTHER -> 50

\* computeFinancialCost(decision, context)
computeFinancialCost(decision, context) ==
    LET budgetPressure == clamp01(OrElse(context.budgetPressure, 0), 10)
        expenditure == decision.resourceAnalysis.estimatedFinancialExpenditureUSD
        resources == decision.requiredResources
        \* 1e-4 USD
        estimatedCost ==
            SumSeq([i \in 1..Len(resources) |-> resources[i].amount * unitCost(resources[i].type)])
    IN  IF expenditure # undefined
        THEN clamp01(Min(expenditure[1], 100) * 75 + budgetPressure * 250, SUnit)
        ELSE clamp01(RoundDiv(Min(estimatedCost, 100 * SUnit) * 75, 10000)
                        + budgetPressure * 250, SUnit)

\* computeReputationalImpact(decision, systemState)
computeReputationalImpact(decision, systemState) ==
    LET exposures == decision.policyExposure
        violationCount == SumSeq([i \in 1..Len(exposures) |-> exposures[i].potentialViolations])
        \* in eighths
        policyViolationSignal == Min(violationCount, 8)
        trustPropagation ==
            clamp01(Max(0, -decision.projectedImpact.trustWeightedPropagation), 100)
        incidentAmplifier == IF systemState.incidentActive THEN 2000 ELSE 0
    IN  clamp01(policyViolationSignal * 625 + trustPropagation * 30 + incidentAmplifier, SUnit)

\* computeCooperativeSystemStability(decision, systemState)
computeCooperativeSystemStability(decision, systemState) ==
    LET \* in units of 1/200
        inverseProjectedStability ==
            clamp(100 - decision.projectedImpact.systemStabilityScore, 0, 200)
        recoverySeconds == Min(decision.projectedImpact.estimatedRecoveryTimeSeconds, 3600)
        backlogSeconds == Min(systemState.recoveryBacklogSeconds, 7200)
    IN  clamp01(RoundDiv(inverseProjectedStability * 25 * 18 + recoverySeconds * 15
                            + backlogSeconds * 5, 18), SUnit)

\* computePredictedCompliance(decision, context, systemState);
\* complianceForecast.overallProbability and historicalComplianceRate in 1e-4 units
computePredictedCompliance(decision, context, systemState) ==
    IF decision.complianceForecast # undefined
    THEN decision.complianceForecast[1].overallProbability
    ELSE LET policyRisk == computeRegulatoryExposure(decision, context)
             operationalRisk == computeOperationalRisk(decision, systemState)
             historicalCompliance ==
                clamp01(OrElse(context.historicalComplianceRate, 5000), SUnit)
         IN  clamp01(RoundDiv(historicalCompliance * 60 + (SUnit - policyRisk) * 25
                                + (SUnit - operationalRisk) * 15, 100), SUnit)

\* computeSimulationImpact(decision)
computeSimulationImpact(decision) ==
    LET impact == decision.projectedImpact
    IN  clamp01((impact.realWorldTaskImpact + 100) * 20
                    + impact.predictiveSynergyDensity * 20
                    + (impact.trustWeightedPropagation + 100) * 10
                    + (impact.cooperativeIntelligenceEvolution + 100) * 10, SUnit)

\* computeOpportunityCostProjection(decision, context)
computeOpportunityCostProjection(decision, context) ==
    LET analysis == decision.resourceAnalysis
        \* in units of 1/300
        normalizedBlockingCost == clamp(analysis.projectedOpportunityCostOfBlockingUSD, 0, 300)
        tradeoffScore == clamp01(analysis.opportunityTradeoffScore, 100)
        efficiency == clamp01(analysis.economicEfficiencyScore, 100)
        budgetPressure == clamp01(OrElse(context.budgetPressure, 0), 10)
    IN  clamp01(RoundDiv(normalizedBlockingCost * 50
                            + 3 * (tradeoffScore * 30 + efficiency * 20 - budgetPressure * 150),
                         3), SUnit)

\* computeStrategicMisalignment(decision); misalignmentPenalty in 1e-4 units
computeStrategicMisalignment(decision) ==
    IF decision.strategicAlignment # undefined
    THEN clamp01(decision.strategicAlignment[1].misalignmentPenalty, SUnit)
    ELSE LET exposures == decision.policyExposure
             intentClarity == IF decision.intentLength > 40 THEN 1000 ELSE 3500
             permissionBreadth == RoundDiv(Min(Len(decision.permissions) * 2000, SUnit), 4)
             policyExposurePenalty ==
                IF Len(exposures) > 0
                THEN RoundDiv(SumSeq([i \in 1..Len(exposures) |-> exposures[i].exposureLevel])
                                * 20, Len(exposures))
                ELSE 0
         IN  clamp01(intentClarity + permissionBreadth + policyExposurePenalty, SUnit)

\* computeDimensionScores(decision, context, systemState)
computeDimensionScores(decision, context, systemState) ==
    [d \in RiskDimensions |->
        CASE d = "operationalRisk" -> computeOperationalRisk(decision, systemState)
          [] d = "regulatoryExposure" -> computeRegulatoryExposure(decision, context)
          [] d = "financialCost" -> computeFinancialCost(decision, context)
          [] d = "reputationalImpact" -> computeReputationalImpact(decision, systemState)
          [] d = "cooperativeSystemStability" ->
                computeCooperativeSystemStability(decision, systemState)
          [] d = "predictedComplianceProbability" ->
                computePredictedCompliance(decision, context, systemState)
          [] d = "simulationImpact" -> computeSimulationImpact(decision)
          [] d = "opportunityCostProjection" ->
                computeOpportunityCostProjection(decision, context)
          [] d = "strategicMisalignment" -> computeStrategicMisalignment(decision)]

\* <<q, r>> with a * b = q * c + r and 0 <= r < c, for a, b >= 0 and c > 0: the
\* product formed digit by digit of b
RECURSIVE DivMod(_, _, _)
DivMod(a, b, c) ==
    IF b < 10 THEN <<(a * b) \div c, (a * b) % c>>
    ELSE LET high == DivMod(a, b \div 10, c)
             low == 10 * high[2] + a * (b % 10)
         IN  <<10 * high[1] + low \div c, low % c>>

\* a * b / c rounded to the nearest integer (half away from zero); a >= 0, c > 0
MulDiv(a, b, c) ==
    LET parts == DivMod(a, IF b >= 0 THEN b ELSE -b, c)
        rounded == parts[1] + (IF 2 * parts[2] >= c THEN 1 ELSE 0)
    IN  IF b >= 0 THEN rounded ELSE -rounded

\* scoreDecision, the six dimensions of its riskDimensions array
WeightedRiskDimensions ==
    <<"operationalRisk", "regulatoryExposure", "financialCost", "reputationalImpact",
      "cooperativeSystemStability", "strategicMisalignment">>

\* scoreDecision(decision, context, systemState) with the given adaptive
\* multipliers: decisionScore in 1e-2 units (toFixed(2)), riskPressure and the
\* weighted values in 1e-4 units (toFixed(4)); the weights as fractions
scoreDecision(multipliers, decision, context, systemState) ==
    LET dimensionScores == computeDimensionScores(decision, context, systemState)
        weights == recalibrateWeights(multipliers, decision, context, systemState)
        \* riskWeightSum in units of 1 / den of the weights; weightedRiskSum /
        \* riskWeightSum as the quotients and the remainders of its six terms
        riskWeightSum == SumSeq([i \in 1..6 |-> weights[WeightedRiskDimensions[i]].num])
        terms == [i \in 1..6 |-> DivMod(weights[WeightedRiskDimensions[i]].num,
                                        dimensionScores[WeightedRiskDimensions[i]],
                                        riskWeightSum)]
        weightedRisk == IF riskWeightSum > 0
                        THEN SumSeq([i \in 1..6 |-> terms[i][1]])
                                + RoundDiv(SumSeq([i \in 1..6 |-> terms[i][2]]), riskWeightSum)
                        ELSE 0
        weighted(d) == clamp01(MulDiv(weights[d].num, dimensionScores[d], weights[d].den),
                               SUnit)
        weightedCompliance == weighted("predictedComplianceProbability")
        weightedSimulation == weighted("simulationImpact")
        weightedOpportunity == weighted("opportunityCostProjection")
        weightedStrategicMisalignment == weighted("strategicMisalignment")
        \* 1e-6 units
        riskPressure ==
            clamp01(weightedRisk * 45 + (SUnit - weightedCompliance) * 13
                        + (SUnit - weightedSimulation) * 12
                        + (SUnit - weightedOpportunity) * 12
                        + weightedStrategicMisalignment * 18, 100 * SUnit)
        decisionScore == clamp01(100 * SUnit - riskPressure, 100 * SUnit)
    IN  [decisionScore |-> RoundDiv(decisionScore, 100),
         riskPressure |-> RoundDiv(riskPressure, 100),
         breakdown |-> [dimensionScores |-> dimensionScores,
                        weights |-> weights,
                        weightedRisk |-> weightedRisk,
                        weightedCompliance |-> weightedCompliance,
                        weightedSimulation |-> weightedSimulation,
                        weightedOpportunity |-> weightedOpportunity,
                        weightedStrategicMisalignment |-> weightedStrategicMisalignment]]

-----------------------------------------------------------------------------
(* HumanOverrideInterface.                                                 *)

Clearances == {"OBSERVER", "REVIEWER", "APPROVER", "ADMIN"}

Verdicts == {"APPROVED", "REJECTED", "ESCALATED"}

clearanceHierarchy ==
    [c \in Clearances |->
        CASE c = "OBSERVER" -> 0
          [] c = "REVIEWER" -> 1
          [] c = "APPROVER" -> 2
          [] c = "ADMIN" -> 3]

minimumOverrideClearance == "APPROVER"

minimumEscalationClearance == "REVIEWER"

\* constructor: adaptationWindowSize = Math.max(10, adaptationWindowSize)
OverrideInterfaceWindow(requested) == Max(10, requested)

\* constructor: overrideLearningRate clamped to [0.005, 0.2] (1e-3 units)
OverrideInterfaceLearningRate(requested) == clamp(requested, 5, 200)

\* authorizeStakeholder with the rank comparison off by one (<= for <)
authorizeStakeholderOffByOne(stakeholder, requiredClearance) ==
    IF ~stakeholder.active THEN "StakeholderInactiveError"
    ELSE IF clearanceHierarchy[stakeholder.clearance] <= clearanceHierarchy[requiredClearance]
         THEN "InsufficientClearanceError"
         ELSE "ok"

\* authorizeStakeholder(stakeholder, requiredClearance): "ok", or the error thrown
authorizeStakeholder(stakeholder, requiredClearance) ==
    IF ~stakeholder.active THEN "StakeholderInactiveError"
    ELSE IF clearanceHierarchy[stakeholder.clearance] < clearanceHierarchy[requiredClearance]
         THEN "InsufficientClearanceError"
         ELSE "ok"

\* requiredClearance with the two minimum clearances exchanged
requiredClearanceExchanged(verdict) ==
    IF verdict = "ESCALATED" THEN minimumOverrideClearance ELSE minimumEscalationClearance

\* submitOverride step 2: the clearance a verdict requires
requiredClearance(verdict) ==
    IF verdict = "ESCALATED" THEN minimumEscalationClearance ELSE minimumOverrideClearance

\* lookupRequest without the check of request.resolved
lookupRequestIgnoringResolved(requests, requestId) ==
    IF requestId \notin DOMAIN requests THEN "NotFound" ELSE "ok"

\* submitOverride step 1: "ok", or which Error the lookup of the request throws
lookupRequest(requests, requestId) ==
    IF requestId \notin DOMAIN requests THEN "NotFound"
    ELSE IF requests[requestId].resolved THEN "AlreadyResolved"
         ELSE "ok"

\* submitOverride step 5: rationale.confidenceLevel clamped to [0, 1] (1e-1 units)
clampConfidence(confidenceLevel) == Max(0, Min(10, confidenceLevel))

\* resolveRequest that attaches the record but leaves the request pending
resolveRequestLeftPending(requests, requestId, record) ==
    [requests EXCEPT ![requestId] = [@ EXCEPT !.overrideRecord = <<record>>]]

\* submitOverride step 6: request.resolved = true; request.overrideRecord = record
resolveRequest(requests, requestId, record) ==
    [requests EXCEPT ![requestId] =
        [@ EXCEPT !.resolved = TRUE, !.overrideRecord = <<record>>]]

\* feedIntoScoringEngine reporting a stability incident for a rejection of
\* confidence 0.7 and above (>= for >)
scoringFeedbackFromSeven(verdict, confidence, learningRate) ==
    [complianceObserved |->
        CASE verdict = "APPROVED" -> 850 + confidence * 15
          [] verdict = "REJECTED" -> 200 + (10 - confidence) * 30
          [] verdict = "ESCALATED" -> 550,
     stabilityIncidentOccurred |-> verdict = "REJECTED" /\ confidence >= 7,
     costOverrunRatio |->
        CASE verdict = "APPROVED" -> 60
          [] verdict = "REJECTED" -> 120 + confidence * 5
          [] verdict = "ESCALATED" -> 105,
     modulatedLearningRate |-> learningRate * confidence]

\* feedIntoScoringEngine: the observation a record is translated into and the
\* learning rate passed with it (overrideLearningRate * confidence, 1e-4 units)
scoringFeedback(verdict, confidence, learningRate) ==
    [complianceObserved |->
        CASE verdict = "APPROVED" -> 850 + confidence * 15
          [] verdict = "REJECTED" -> 200 + (10 - confidence) * 30
          [] verdict = "ESCALATED" -> 550,
     stabilityIncidentOccurred |->
        CASE verdict = "APPROVED" -> FALSE
          [] verdict = "REJECTED" -> confidence > 7
          [] verdict = "ESCALATED" -> FALSE,
     costOverrunRatio |->
        CASE verdict = "APPROVED" -> 60
          [] verdict = "REJECTED" -> 120 + confidence * 5
          [] verdict = "ESCALATED" -> 105,
     modulatedLearningRate |-> learningRate * confidence]

\* feedIntoClassificationEngine recording every rejection at severity 0.4
classificationFeedbackFlat(verdict, confidence) ==
    CASE verdict = "APPROVED" -> [violated |-> FALSE, severity |-> <<0>>]
      [] verdict = "REJECTED" -> [violated |-> TRUE, severity |-> <<4000>>]
      [] verdict = "ESCALATED" -> [violated |-> TRUE, severity |-> <<2000>>]

\* feedIntoClassificationEngine: the outcome a record is translated into
\* (severity in 1e-4 units)
classificationFeedback(verdict, confidence) ==
    CASE verdict = "APPROVED" -> [violated |-> FALSE, severity |-> <<0>>]
      [] verdict = "REJECTED" -> [violated |-> TRUE, severity |-> <<4000 + confidence * 500>>]
      [] verdict = "ESCALATED" -> [violated |-> TRUE, severity |-> <<2000>>]

\* the audit trail cut to three windows instead of two
appendToHistoryKeepingThree(trail, record, window) ==
    LET pushed == Append(trail, record)
    IN  IF Len(pushed) > window * 3 THEN LastN(pushed, window * 3) ELSE pushed

\* submitOverride step 8: the audit trail after the push and the trim
appendToHistory(trail, record, window) ==
    LET pushed == Append(trail, record)
    IN  IF Len(pushed) > window * 3 THEN LastN(pushed, window * 2) ELSE pushed

-----------------------------------------------------------------------------
(* HistoricalFeedbackIntegrator                                            *)
(* Errors, means and deltas are in 1e-4 units; learning rates in 1e-4;     *)
(* simulation assumptions and compliance biases in 1e-8.  A mean and a     *)
(* product by a decimal coefficient are rounded to the nearest 1e-4.       *)

ComplianceStageKeys == {"initiation", "execution", "persistence", "termination"}

SimulationKeys ==
    {"realWorldTaskImpact", "predictiveSynergyDensity",
     "trustWeightedInfluencePropagation", "cooperativeIntelligenceEvolution"}

\* the constructor's defaults
DefaultFeedbackOptions ==
    [maxHistorySize |-> 500, weightLearningRate |-> 2000, simulationLearningRate |-> 2000,
     complianceLearningRate |-> 2000, minimumSampleSize |-> 8]

\* ImpactSimulationModule.assumptions as constructed
InitialAssumptions ==
    [taskCriticalityWeight |-> 6000 * SUnit, taskIntentClarityWeight |-> 4000 * SUnit,
     excessiveResourcePenalty |-> 3000 * SUnit, synergyPermissionWeight |-> 1000 * SUnit,
     synergyLayerWeight |-> 2000 * SUnit, trustBase |-> 5000 * SUnit,
     trustPolicyExposurePenaltyWeight |-> 2000 * SUnit,
     intelligenceSynergyWeight |-> 5000 * SUnit, intelligenceStabilityWeight |-> 5000 * SUnit,
     impactfulPermissionBoost |-> 12000 * SUnit, noiseAmplitude |-> 1000 * SUnit]

\* ImpactSimulationModule.clampAssumption
clampAssumption(key, value) ==
    CASE key = "noiseAmplitude" -> clamp(value, 0, 3000 * SUnit)
      [] key = "impactfulPermissionBoost" -> clamp(value, 8000 * SUnit, 18000 * SUnit)
      [] OTHER -> clamp(value, 0, 15000 * SUnit)

\* ImpactSimulationModule.applyAssumptionDeltas(deltas, learningRate)
applyAssumptionDeltas(current, deltas, learningRate) ==
    LET lr == clamp(learningRate, 100, 5000)
    IN  [key \in DOMAIN current |->
            IF key \in DOMAIN deltas
            THEN clampAssumption(key, current[key] + deltas[key] * lr)
            ELSE current[key]]

\* ComplianceEstimator's calibration fields as constructed
InitialComplianceCalibration ==
    [stageBias |-> [key \in ComplianceStageKeys |-> 0],
     actionTypeViolationBias |-> <<>>,
     driftBias |-> 0]

\* ComplianceEstimator.applyHistoricalCalibration(deltas, learningRate)
applyHistoricalCalibration(current, deltas, learningRate) ==
    LET lr == clamp(learningRate, 100, 5000)
        biasOf(actionType) ==
            IF actionType \in DOMAIN current.actionTypeViolationBias
            THEN current.actionTypeViolationBias[actionType] ELSE 0
    IN  [stageBias |->
            [key \in ComplianceStageKeys |->
                IF key \in DOMAIN deltas.stageBias
                THEN clamp(current.stageBias[key] + deltas.stageBias[key] * lr,
                           -3500 * SUnit, 3500 * SUnit)
                ELSE current.stageBias[key]],
         actionTypeViolationBias |->
            [actionType \in DOMAIN current.actionTypeViolationBias
                                \cup DOMAIN deltas.actionTypeViolationDeltas |->
                IF actionType \in DOMAIN deltas.actionTypeViolationDeltas
                THEN clamp(biasOf(actionType)
                                + deltas.actionTypeViolationDeltas[actionType] * lr,
                           -4000 * SUnit, 4000 * SUnit)
                ELSE biasOf(actionType)],
         driftBias |->
            clamp(current.driftBias + deltas.driftBiasDelta * lr, -3000 * SUnit, 3000 * SUnit)]

\* HistoricalFeedbackIntegrator.mean
mean(values) == IF values = <<>> THEN 0 ELSE RoundDiv(SumSeq(values), Len(values))

\* the integer square root of v between lo and hi, by bisection
RECURSIVE SqrtBetween(_, _, _)
SqrtBetween(v, lo, hi) ==
    IF lo >= hi THEN lo
    ELSE LET mid == (lo + hi + 1) \div 2
         IN  IF mid * mid <= v THEN SqrtBetween(v, mid, hi) ELSE SqrtBetween(v, lo, mid - 1)

\* HistoricalFeedbackIntegrator.stdDev
stdDev(values) ==
    IF Len(values) <= 1 THEN 0
    ELSE LET m == mean(values)
             variance == SumSeq([i \in 1..Len(values) |-> (values[i] - m) * (values[i] - m)])
                            \div Len(values)
         IN  SqrtBetween(variance, 0, 2 * SUnit)

\* the errors realized - predicted of one simulation field over the records
\* that carry it on both sides
FieldErrors(records, key) ==
    LET carrying == SelectSeq(records, LAMBDA r :
                        /\ r.predictedSimulation # undefined
                        /\ r.realizedSimulation # undefined
                        /\ key \in DOMAIN r.predictedSimulation[1]
                        /\ key \in DOMAIN r.realizedSimulation[1])
    IN  [i \in 1..Len(carrying) |->
            carrying[i].realizedSimulation[1][key] - carrying[i].predictedSimulation[1][key]]

\* HistoricalFeedbackIntegrator.computeSimulationErrors
computeSimulationErrors(records) ==
    [taskImpact |-> mean(FieldErrors(records, "realWorldTaskImpact")),
     synergy |-> mean(FieldErrors(records, "predictiveSynergyDensity")),
     trust |-> mean(FieldErrors(records, "trustWeightedInfluencePropagation")),
     intelligenceEvolution |-> mean(FieldErrors(records, "cooperativeIntelligenceEvolution"))]

\* the records with both a predicted and a realized compliance
WithCompliance(records) ==
    SelectSeq(records, LAMBDA r : r.predictedCompliance # undefined
                                    /\ r.realizedCompliance # undefined)

\* realized - predicted overall compliance of a record, both clamped to [0, 1]
ComplianceError(r) ==
    clamp01(r.realizedCompliance[1].overallObserved, SUnit)
        - clamp01(r.predictedCompliance[1].overallProbability, SUnit)

\* the clamped errors of one lifecycle stage over the records that carry it
StageErrors(records, key) ==
    LET carrying == SelectSeq(WithCompliance(records), LAMBDA r :
                        /\ key \in DOMAIN r.predictedCompliance[1].lifecycleStageProbabilities
                        /\ key \in DOMAIN r.realizedCompliance[1].lifecycleStageObserved)
    IN  [i \in 1..Len(carrying) |->
            clamp01(carrying[i].realizedCompliance[1].lifecycleStageObserved[key], SUnit)
              - clamp01(carrying[i].predictedCompliance[1].lifecycleStageProbabilities[key],
                        SUnit)]

\* HistoricalFeedbackIntegrator.computeStageBias
computeStageBias(records) ==
    [key \in {k \in ComplianceStageKeys : StageErrors(records, k) # <<>>} |->
        clamp(mean(StageErrors(records, key)), -2500, 2500)]

\* HistoricalFeedbackIntegrator.computeActionTypeViolationDeltas
computeActionTypeViolationDeltas(records) ==
    LET compared == WithCompliance(records)
        errorsOf(actionType) ==
            LET own == SelectSeq(compared, LAMBDA r : r.actionType = actionType)
            IN  [i \in 1..Len(own) |-> ComplianceError(own[i])]
    IN  [actionType \in {compared[i].actionType : i \in 1..Len(compared)} |->
            clamp(RoundDiv(-mean(errorsOf(actionType)) * 8, 10), -2500, 2500)]

\* the absolute value
Abs(value) == IF value < 0 THEN -value ELSE value

\* HistoricalFeedbackIntegrator.deriveWeightDeltas
deriveWeightDeltas(meanScoreError, meanComplianceError, simulationErrors) ==
    LET overconfidence == clamp(-meanScoreError, 0, SUnit)
        underconfidence == clamp(meanScoreError, 0, SUnit)
        complianceMiss == clamp(-meanComplianceError, 0, SUnit)
        simulationMiss ==
            clamp(RoundDiv(Abs(simulationErrors.taskImpact) * 4
                            + Abs(simulationErrors.synergy) * 2
                            + Abs(simulationErrors.trust) * 2
                            + Abs(simulationErrors.intelligenceEvolution) * 2, 10),
                  0, SUnit)
    IN  [operationalRisk |-> RoundDiv(overconfidence * 90 - underconfidence * 40, 100),
         regulatoryExposure |->
            RoundDiv(overconfidence * 80 + complianceMiss * 110 - underconfidence * 30, 100),
         financialCost |-> RoundDiv(overconfidence * 25 - underconfidence * 15, 100),
         reputationalImpact |-> RoundDiv(overconfidence * 50 + complianceMiss * 40, 100),
         cooperativeSystemStability |->
            RoundDiv(overconfidence * 70 + simulationMiss * 40, 100),
         predictedComplianceProbability |->
            RoundDiv(complianceMiss * 120 - underconfidence * 20, 100),
         simulationImpact |-> RoundDiv(simulationMiss * 90 - underconfidence * 20, 100),
         opportunityCostProjection |->
            RoundDiv(underconfidence * 40 - overconfidence * 60, 100),
         strategicMisalignment |-> RoundDiv(overconfidence * 35 - underconfidence * 20, 100)]

\* HistoricalFeedbackIntegrator.deriveSimulationAssumptionDeltas
deriveSimulationAssumptionDeltas(simulationErrors, scoreErrors) ==
    LET taskError == simulationErrors.taskImpact
        synergyError == simulationErrors.synergy
        trustError == simulationErrors.trust
        intelligenceError == simulationErrors.intelligenceEvolution
        uncertainty == clamp(stdDev(scoreErrors), 0, 4000)
    IN  [taskCriticalityWeight |-> RoundDiv(taskError * 50, 100),
         taskIntentClarityWeight |-> RoundDiv(taskError * 25, 100),
         excessiveResourcePenalty |-> RoundDiv(-taskError * 40, 100),
         synergyPermissionWeight |-> RoundDiv(synergyError * 30, 100),
         synergyLayerWeight |-> RoundDiv(synergyError * 35, 100),
         trustBase |-> RoundDiv(trustError * 35, 100),
         trustPolicyExposurePenaltyWeight |-> RoundDiv(-trustError * 30, 100),
         intelligenceSynergyWeight |-> RoundDiv(intelligenceError * 30, 100),
         intelligenceStabilityWeight |-> RoundDiv(intelligenceError * 25, 100),
         impactfulPermissionBoost |-> RoundDiv(intelligenceError * 25, 100),
         noiseAmplitude |-> RoundDiv((uncertainty - 1200) * 50, 100)]

\* HistoricalFeedbackIntegrator.deriveDriftBiasDelta
deriveDriftBiasDelta(meanComplianceError, stageBias) ==
    LET persistenceBias ==
            IF "persistence" \in DOMAIN stageBias THEN stageBias["persistence"] ELSE 0
    IN  clamp(RoundDiv(-meanComplianceError * 6 - persistenceBias * 4, 10), -2500, 2500)

\* integrate keeping only the records of the batch
pushRecordsOfBatch(opts, stored, records) == LastN(records, opts.maxHistorySize)

\* integrate: the history after the batch is pushed and cut to maxHistorySize
pushRecords(opts, stored, records) ==
    LET pushed == stored \o records
    IN  IF Len(pushed) > opts.maxHistorySize
        THEN SubSeq(pushed, Len(pushed) - opts.maxHistorySize + 1, Len(pushed))
        ELSE pushed

\* integrate: history.slice(-maxHistorySize)
sampleOf(opts, stored) == LastN(stored, opts.maxHistorySize)

\* integrate that calibrates on a sample of any size
hasMinimumSampleAlways(opts, sample) == TRUE

\* integrate: whether the sample is evaluated (sample.length >= minimumSampleSize)
hasMinimumSample(opts, sample) == ~(Len(sample) < opts.minimumSampleSize)

\* integrate: the errors, the deltas derived from them and the report
integration(sample) ==
    LET scoreErrors ==
            [i \in 1..Len(sample) |->
                clamp01(sample[i].realizedDecisionQuality, SUnit)
                    - clamp(sample[i].predictedDecisionScore, 0, 100 * 100)]
        meanScoreError == mean(scoreErrors)
        compared == WithCompliance(sample)
        meanComplianceError == mean([i \in 1..Len(compared) |-> ComplianceError(compared[i])])
        simulationErrors == computeSimulationErrors(sample)
        stageBias == computeStageBias(sample)
    IN  [sampleCount |-> Len(sample),
         meanScoreError |-> meanScoreError,
         meanComplianceError |-> meanComplianceError,
         meanSimulationErrors |-> simulationErrors,
         appliedWeightDeltas |->
            deriveWeightDeltas(meanScoreError, meanComplianceError, simulationErrors),
         appliedSimulationAssumptionDeltas |->
            deriveSimulationAssumptionDeltas(simulationErrors, scoreErrors),
         appliedComplianceCalibration |->
            [stageBias |-> stageBias,
             actionTypeViolationDeltas |-> computeActionTypeViolationDeltas(sample),
             driftBiasDelta |-> deriveDriftBiasDelta(meanComplianceError, stageBias)]]

-----------------------------------------------------------------------------
(* ThresholdOptimizationEngine.  The class is imported by the repository's *)
(* main but its source is not among the sources; it is modelled from the   *)
(* design's section on it and from the calls main makes.  Thresholds are   *)
(* in 1e-7 units, the conservatism bias and a signal's confidence in 1e-4. *)

\* the options main constructs the engine with (learning rate in 1e-4 units, the
\* shift per cycle in threshold points of 1e-7)
MainOptimizationOptions ==
    [baseLearningRate |-> 1000, maxShiftPerCycle |-> 5 * TUnit,
     minimumSignalCount |-> 3, maxVersionHistory |-> 50]

\* a ConfigVersion; versionId is kept as the version number
ConfigVersion(versionNumber, active, conservatismBias, thresholdBand, signalIds, changeReason) ==
    [versionNumber |-> versionNumber, active |-> active,
     conservatismBias |-> conservatismBias, thresholdBand |-> thresholdBand,
     triggeringSignalIds |-> signalIds, changeReason |-> changeReason]

\* the version the constructor creates: number 1, active, the base threshold band
InitialVersion == ConfigVersion(1, TRUE, 0, baseThresholds, <<>>, "initial")

\* the configuration a version holds, as it is applied to the engines
ConfigurationOf(version) ==
    [conservatismBias |-> version.conservatismBias, thresholdBand |-> version.thresholdBand]

\* getActiveVersion(): the active version, or undefined
getActiveVersion(versions) ==
    LET actives == SelectSeq(versions, LAMBDA v : v.active)
    IN  IF actives = <<>> THEN undefined ELSE <<actives[1]>>

\* an OptimizationSignal: its type, confidence, the dimensions it names and
\* whether it asks for a more conservative configuration
OptimizationSignal(signalId, type, confidence, dimensions, tighten) ==
    [signalId |-> signalId, type |-> type, confidence |-> confidence,
     dimensions |-> dimensions, tighten |-> tighten]

\* the confidence of a signal, clamped to [0, 1] and signed by its direction
SignedConfidence(signal) ==
    IF signal.tighten THEN clamp01(signal.confidence, SUnit)
    ELSE -clamp01(signal.confidence, SUnit)

\* whether the pending signals pull in both directions
Conflicting(pending) ==
    /\ \E i \in 1..Len(pending) : pending[i].tighten
    /\ \E i \in 1..Len(pending) : ~pending[i].tighten

\* the threshold-band shift of a cycle: two points per signal of full confidence,
\* halved when the signals conflict, clamped to maxShiftPerCycle
thresholdShift(opts, pending) ==
    LET net == SumSeq([i \in 1..Len(pending) |-> SignedConfidence(pending[i])])
                    * ((2 * TUnit) \div SUnit)
        dampened == IF Conflicting(pending) THEN RoundDiv(net, 2) ELSE net
    IN  clamp(dampened, -opts.maxShiftPerCycle, opts.maxShiftPerCycle)

\* the per-dimension weight deltas of a cycle (1e-4 units)
dimensionDeltas(pending) ==
    LET named == UNION {pending[i].dimensions : i \in 1..Len(pending)}
    IN  [d \in named |->
            SumSeq([i \in 1..Len(pending) |->
                        IF d \in pending[i].dimensions
                        THEN SignedConfidence(pending[i]) ELSE 0])]

\* the versions with none active
deactivated(versions) == [i \in 1..Len(versions) |-> [versions[i] EXCEPT !.active = FALSE]]

\* a new version appended without deactivating the active one
activateNewVersionBesideOld(opts, versions, version) ==
    LastN(Append(versions, version), opts.maxVersionHistory)

\* a new version appended and activated, the history cut to maxVersionHistory
activateNewVersion(opts, versions, version) ==
    LastN(Append(deactivated(versions), version), opts.maxVersionHistory)

\* whether optimize runs a cycle: always
hasEnoughSignalsAlways(opts, pending) == TRUE

\* whether optimize runs a cycle: pending signal count >= minimumSignalCount
hasEnoughSignals(opts, pending) == Len(pending) >= opts.minimumSignalCount

\* optimize(scoringEngine, classificationEngine, overrideAdaptationSignal?): the
\* new version of a cycle.  The adaptation signal, when given, adds its rejection
\* rate less its approval rate (1e-4 units) to the conservatism bias.
nextVersion(opts, versions, pending, adaptationSignal) ==
    LET current == getActiveVersion(versions)[1]
        shift == thresholdShift(opts, pending)
        overridePressure ==
            IF adaptationSignal = undefined THEN 0
            ELSE clamp01(adaptationSignal[1].rejectionRate, SUnit)
                    - clamp01(adaptationSignal[1].approvalRate, SUnit)
        conservatismBias ==
            clamp(current.conservatismBias + RoundDiv(shift, TUnit \div 100)
                    + RoundDiv(overridePressure, 10), -SUnit, SUnit)
        thresholdBand ==
            normalizeThresholdBand(
                [autoApproveMin |-> current.thresholdBand.autoApproveMin + shift,
                 blockMax |-> current.thresholdBand.blockMax + shift])
    IN  ConfigVersion(versions[Len(versions)].versionNumber + 1, TRUE, conservatismBias,
                      thresholdBand, [i \in 1..Len(pending) |-> pending[i].signalId],
                      "optimization cycle")

\* rollback that reactivates the target and cuts the versions created after it
reactivateTruncating(versions, versionId) ==
    LET kept == SelectSeq(versions, LAMBDA v : v.versionNumber <= versionId)
    IN  [i \in 1..Len(kept) |-> [kept[i] EXCEPT !.active = (kept[i].versionNumber = versionId)]]

\* rollback(versionId, ...): the history with exactly the target version active
reactivate(versions, versionId) ==
    [i \in 1..Len(versions) |->
        [versions[i] EXCEPT !.active = (versions[i].versionNumber = versionId)]]

\* the retained version with the given id, or undefined
getVersion(versions, versionId) ==
    LET found == SelectSeq(versions, LAMBDA v : v.versionNumber = versionId)
    IN  IF found = <<>> THEN undefined ELSE <<found[1]>>

-----------------------------------------------------------------------------
(* The override workflow: one HumanOverrideInterface and the two engines   *)
(* every submitOverride call is given.                                     *)

MaxRequests == 2                \* override requests created in a behaviour

DefaultAdaptationWindowSize == 100

DefaultHistoryWindowSize == 50

\* rationale.confidenceLevel as submitted (1e-1 units): below and above [0, 1]
ConfidenceLevels == {-5, 15}

\* predictedComplianceProbability of the flagged decision's score (1e-3 units)
PredictedCompliances == {500}

DefaultOverrideLearningRate == 40

Stakeholders == [clearance : Clearances, active : BOOLEAN]

\* what a call did: the method, the request it named (0: none), "ok" or the error
Returned(op, requestId, result) ==
    [op |-> op, requestId |-> requestId, result |-> result]

NoCall == Returned("none", 0, "ok")

NoArgs == <<>>

InitEngines ==
    /\ adaptiveMultipliers = InitialMultipliers
    /\ calibrationWrites = <<>>
    /\ violationHistory = <<>>
    /\ requestedWindowSize = DefaultHistoryWindowSize
    /\ historyWindowSize = ClassificationEngineWindow(requestedWindowSize)
    /\ recorded = <<>>

InitPreemptive ==
    /\ options = DefaultOptions
    /\ history = <<>>
    /\ patternMap = <<>>
    /\ reported = <<>>

\* new ThresholdOptimizationEngine(options)
InitOptimizationWith(opts) ==
    /\ optimizationOptions = opts
    /\ versionHistory = <<InitialVersion>>
    /\ pendingSignals = <<>>
    /\ signalCount = 0
    /\ appliedConfiguration = ConfigurationOf(InitialVersion)
    /\ createdVersions = <<InitialVersion>>

InitOptimization == InitOptimizationWith(MainOptimizationOptions)

\* new HistoricalFeedbackIntegrator(scoringEngine, simulationModule,
\* complianceEstimator, options), with the two modules as constructed
InitFeedbackWith(opts) ==
    /\ feedbackOptions = opts
    /\ feedbackHistory = <<>>
    /\ feedbackCount = 0
    /\ assumptions = InitialAssumptions
    /\ complianceCalibration = InitialComplianceCalibration

InitFeedback == InitFeedbackWith(DefaultFeedbackOptions)

\* new HumanOverrideInterface(adaptationWindowSize, overrideLearningRate)
InitOverrideWith(window, learningRate) ==
    /\ pendingRequests = <<>>
    /\ overrideHistory = <<>>
    /\ adaptationWindowSize = OverrideInterfaceWindow(window)
    /\ overrideLearningRate = OverrideInterfaceLearningRate(learningRate)
    /\ nextRequestId = 1
    /\ submitted = <<>>
    /\ fedObservations = <<>>

InitOverride == InitOverrideWith(DefaultAdaptationWindowSize, DefaultOverrideLearningRate)

Init ==
    /\ InitOverride
    /\ InitEngines
    /\ InitPreemptive
    /\ InitOptimization
    /\ InitFeedback
    /\ args = NoArgs
    /\ outcome = NoCall
    /\ answers = NoAnswers

\* createOverrideRequest(decision, riskScore, classification)
CreateOverrideRequest(predictedCompliance) ==
    /\ pendingRequests' = pendingRequests @@
            (nextRequestId :> [resolved |-> FALSE,
                               predictedCompliance |-> predictedCompliance,
                               overrideRecord |-> <<>>])
    /\ nextRequestId' = nextRequestId + 1
    /\ outcome' = Returned("createOverrideRequest", nextRequestId, "ok")
    /\ UNCHANGED <<overrideHistory, adaptationWindowSize, overrideLearningRate,
                   submitted, fedObservations, seVars, ceVars, pdVars, args, answers, toVars, hfVars>>

\* authorizeStakeholder(stakeholder, requiredClearance), called directly
AuthorizeStakeholder(stakeholder, required) ==
    /\ outcome' = Returned("authorizeStakeholder", 0,
                           authorizeStakeholder(stakeholder, required))
    /\ UNCHANGED <<ovVars, seVars, ceVars, pdVars, args, answers, toVars, hfVars>>

\* submitOverride(requestId, stakeholder, verdict, rationale, annotations,
\*                scoringEngine, classificationEngine)
SubmitOverride(requestId, stakeholder, verdict, confidenceLevel) ==
    LET found == lookupRequest(pendingRequests, requestId)
        required == requiredClearance(verdict)
        auth == authorizeStakeholder(stakeholder, required)
        confidence == clampConfidence(confidenceLevel)
        \* the OverrideRecord, reduced to the fields the feedback path reads
        record == [requestId |-> requestId, verdict |-> verdict,
                   confidenceLevel |-> confidence]
        fb == scoringFeedback(verdict, confidence, overrideLearningRate)
        cf == classificationFeedback(verdict, confidence)
    IN  IF found # "ok"
        THEN /\ outcome' = Returned("submitOverride", requestId, found)
             /\ UNCHANGED <<ovVars, seVars, ceVars, pdVars, args, answers, toVars, hfVars>>
        ELSE IF auth # "ok"
        THEN /\ outcome' = Returned("submitOverride", requestId, auth)
             /\ UNCHANGED <<ovVars, seVars, ceVars, pdVars, args, answers, toVars, hfVars>>
        ELSE /\ pendingRequests' = resolveRequest(pendingRequests, requestId, record)
             /\ adaptiveMultipliers' =
                    updateCalibrationFromFeedback(
                        adaptiveMultipliers, pendingRequests[requestId].predictedCompliance,
                        fb, fb.modulatedLearningRate)
             /\ calibrationWrites' =
                    Append(calibrationWrites, EffectiveLearningRate(fb.modulatedLearningRate))
             /\ violationHistory' =
                    recordOutcome(violationHistory, historyWindowSize, cf.violated, cf.severity)
             /\ recorded' = Append(recorded, ViolationEvent(cf.violated, cf.severity))
             /\ overrideHistory' = appendToHistory(overrideHistory, record, adaptationWindowSize)
             /\ submitted' = Append(submitted, record)
             /\ fedObservations' = Append(fedObservations, fb)
             /\ outcome' = Returned("submitOverride", requestId, "ok")
             /\ UNCHANGED <<adaptationWindowSize, overrideLearningRate, nextRequestId,
                            historyWindowSize, requestedWindowSize, pdVars, args, answers, toVars, hfVars>>

Next ==
    \/ \E p \in PredictedCompliances :
            nextRequestId <= MaxRequests /\ CreateOverrideRequest(p)
    \/ \E s \in Stakeholders, c \in Clearances : AuthorizeStakeholder(s, c)
    \/ \E r \in 1..(MaxRequests + 1), s \in Stakeholders, v \in Verdicts,
          c \in ConfidenceLevels : SubmitOverride(r, s, v, c)

Spec == Init /\ [][Next]_vars

-----------------------------------------------------------------------------
(* Properties of the override workflow (checked under Spec).               *)

\* the engine and interface state a failed submitOverride must leave alone
OverrideState == <<pendingRequests, overrideHistory, adaptiveMultipliers, violationHistory>>

RequestIds == 1..(MaxRequests + 1)

ClearanceOrder == <<"OBSERVER", "REVIEWER", "APPROVER", "ADMIN">>

RankOf(c) == CHOOSE i \in 1..4 : ClearanceOrder[i] = c

NeededFor(verdict) == IF verdict \in {"APPROVED", "REJECTED"} THEN "APPROVER" ELSE "REVIEWER"

\* what authorizeStakeholder is to answer
ExpectedAuthorization(stakeholder, required) ==
    IF ~stakeholder.active THEN "StakeholderInactiveError"
    ELSE IF RankOf(stakeholder.clearance) < RankOf(required)
         THEN "InsufficientClearanceError"
         ELSE "ok"

IsPending(r) == r \in DOMAIN pendingRequests /\ ~pendingRequests[r].resolved

\* C1: submitOverride called with a request id that is unknown or already
\* resolved throws, and the pending-request map, the override history, the
\* adaptive multipliers and the violation window are what they were before.
C1_FailedLookupChangesNothing ==
    \A r \in RequestIds, s \in Stakeholders, v \in Verdicts, c \in ConfidenceLevels :
        (r \notin DOMAIN pendingRequests \/ pendingRequests[r].resolved) =>
            ENABLED (/\ SubmitOverride(r, s, v, c)
                     /\ outcome'.result =
                            (IF r \notin DOMAIN pendingRequests
                             THEN "NotFound" ELSE "AlreadyResolved")
                     /\ UNCHANGED OverrideState)

\* a submission on a resolved request has just thrown, after feedback was applied
C1_Witness ==
    /\ outcome.op = "submitOverride"
    /\ outcome.result = "AlreadyResolved"
    /\ overrideHistory # <<>>
    /\ adaptiveMultipliers # InitialMultipliers
    /\ violationHistory # <<>>

SubmissionsOn(r) == {i \in 1..Len(submitted) : submitted[i].requestId = r}

\* C2: on every request at most one submitOverride succeeds: a request is resolved
\* exactly when one record was pushed for it, each success applied one calibration
\* write, one violation event and one history record, and no submission on a
\* resolved request succeeds or touches the engines.
C2_ResolvedExactlyOnce ==
    /\ \A r \in DOMAIN pendingRequests :
            /\ Cardinality(SubmissionsOn(r)) = (IF pendingRequests[r].resolved THEN 1 ELSE 0)
            /\ pendingRequests[r].resolved =>
                    \A s \in Stakeholders, v \in Verdicts, c \in ConfidenceLevels :
                        ~ENABLED (/\ SubmitOverride(r, s, v, c)
                                  /\ \/ outcome'.result = "ok"
                                     \/ OverrideState' # OverrideState)
    /\ Len(calibrationWrites) = Len(submitted)
    /\ Len(recorded) = Len(submitted)
    /\ Len(overrideHistory) = Len(submitted)

\* every request is resolved and a further submission on one of them has failed
C2_Witness ==
    /\ Len(submitted) = MaxRequests
    /\ \A r \in 1..MaxRequests : r \in DOMAIN pendingRequests /\ pendingRequests[r].resolved
    /\ outcome.op = "submitOverride"
    /\ outcome.result = "AlreadyResolved"

\* C3: a submitOverride that fails authorization (inactive stakeholder, or clearance
\* below the one the verdict requires) leaves the request pending and changes
\* nothing; on a pending request a submission by an active, sufficiently cleared
\* stakeholder succeeds and resolves it.
C3_AuthorizationFailureAborts ==
    \A r \in RequestIds, s \in Stakeholders, v \in Verdicts, c \in ConfidenceLevels :
        IsPending(r) =>
            IF s.active /\ RankOf(s.clearance) >= RankOf(NeededFor(v))
            THEN ENABLED (/\ SubmitOverride(r, s, v, c)
                          /\ outcome'.result = "ok"
                          /\ pendingRequests'[r].resolved
                          /\ Len(overrideHistory') = Len(overrideHistory) + 1)
            ELSE ENABLED (/\ SubmitOverride(r, s, v, c)
                          /\ outcome'.result \in
                                {"StakeholderInactiveError", "InsufficientClearanceError"}
                          /\ ~pendingRequests'[r].resolved
                          /\ UNCHANGED OverrideState)

\* a submission has just failed authorization and its request is still pending
C3_Witness ==
    /\ outcome.op = "submitOverride"
    /\ outcome.result = "InsufficientClearanceError"
    /\ IsPending(outcome.requestId)

\* C4: authorizeStakeholder throws the inactive-stakeholder error whenever the
\* stakeholder is inactive, else the insufficient-clearance error exactly when the
\* stakeholder ranks below the required clearance in OBSERVER < REVIEWER <
\* APPROVER < ADMIN, and succeeds otherwise; submitOverride requires APPROVER for
\* APPROVED and REJECTED and REVIEWER for ESCALATED.
C4_AuthorizationRule ==
    /\ \A s \in Stakeholders, required \in Clearances :
            ENABLED (/\ AuthorizeStakeholder(s, required)
                     /\ outcome'.result = ExpectedAuthorization(s, required))
    /\ \A r \in RequestIds, s \in Stakeholders, v \in Verdicts, c \in ConfidenceLevels :
            IsPending(r) =>
                ENABLED (/\ SubmitOverride(r, s, v, c)
                         /\ outcome'.result = ExpectedAuthorization(s, NeededFor(v)))

\* authorizeStakeholder has just thrown for an active stakeholder of too low a rank
C4_Witness ==
    /\ outcome.op = "authorizeStakeholder"
    /\ outcome.result = "InsufficientClearanceError"

-----------------------------------------------------------------------------
(* The violation window of a ClassificationEngine constructed with any     *)
(* window size.                                                            *)

MaxRecorded == 12               \* recordOutcome calls in a behaviour

\* the historyWindowSize passed to the constructor: below and above the floor of 10
RequestedWindowSizes == {3, 11}

\* DecisionOutcomeFeedback values (severity in 1e-4 units)
WindowFeedbacks ==
    {[violated |-> TRUE, severity |-> <<8000>>], [violated |-> FALSE, severity |-> undefined]}

InitScoring ==
    /\ adaptiveMultipliers = InitialMultipliers
    /\ calibrationWrites = <<>>

InitWindow ==
    /\ InitOverride
    /\ InitScoring
    /\ InitPreemptive
    /\ InitOptimization
    /\ InitFeedback
    /\ requestedWindowSize \in RequestedWindowSizes
    /\ historyWindowSize = ClassificationEngineWindow(requestedWindowSize)
    /\ violationHistory = <<>>
    /\ recorded = <<>>
    /\ args = NoArgs
    /\ outcome = NoCall
    /\ answers = NoAnswers

\* ClassificationEngine.recordOutcome(feedback)
RecordOutcome(feedback) ==
    /\ violationHistory' =
            recordOutcome(violationHistory, historyWindowSize, feedback.violated, feedback.severity)
    /\ recorded' = Append(recorded, ViolationEvent(feedback.violated, feedback.severity))
    /\ outcome' = Returned("recordOutcome", 0, "ok")
    /\ answers' = NoAnswers
    /\ UNCHANGED <<historyWindowSize, requestedWindowSize, ovVars, seVars, pdVars, args, toVars, hfVars>>

NextWindow ==
    \E f \in WindowFeedbacks : Len(recorded) < MaxRecorded /\ RecordOutcome(f)

SpecWindow == InitWindow /\ [][NextWindow]_vars

\* the window is the last `capacity` recorded events, in order of arrival
HoldsLatest(capacity) ==
    LET kept == Len(violationHistory)
    IN  /\ kept <= capacity
        /\ kept = (IF Len(recorded) <= capacity THEN Len(recorded) ELSE capacity)
        /\ \A i \in 1..kept : violationHistory[i] = recorded[Len(recorded) - kept + i]

\* C7 (as stated): the violation window of an engine constructed with window size
\* N holds at most N events, the most recently recorded ones in order of arrival.
C7_WindowHoldsAtMostRequested == HoldsLatest(requestedWindowSize)

\* C7 (amended): the violation window of an engine constructed with window size N
\* holds at most max(10, N) events, the most recently recorded ones in order of
\* arrival.
C7_WindowHoldsLatest ==
    HoldsLatest(IF requestedWindowSize >= 10 THEN requestedWindowSize ELSE 10)

\* an engine constructed with N = 3 holds ten events, after evicting the oldest
C7_Witness ==
    /\ requestedWindowSize = 3
    /\ Len(violationHistory) = 10
    /\ Len(recorded) > 10

-----------------------------------------------------------------------------
(* classify on a ClassificationEngine with the default window, between     *)
(* recordOutcome calls.  The score result and the context of the classify  *)
(* calls of a behaviour are chosen initially.                              *)

MaxEvents == 4                  \* recordOutcome calls in a behaviour

Feedbacks == WindowFeedbacks \cup {[violated |-> TRUE, severity |-> <<0>>]}

\* dimension scores (1e-4 units) of which the first k are 2.0 and the rest -0.3
DimensionScoresWith(k) ==
    [d \in RiskDimensions |->
        IF \E i \in 1..k : DimensionOrder[i] = d THEN 2 * SUnit ELSE -3000]

\* decision scores (1e-2 units): 10, 55 and 99
DecisionScores == {1000, 5500, 9900}

ClassificationContext(riskPosture, entropyLevel, recentViolationTrend, lift, escalation, block) ==
    [riskPosture |-> riskPosture, entropyLevel |-> entropyLevel,
     recentViolationTrend |-> recentViolationTrend, preemptiveRiskLift |-> lift,
     preemptiveEscalationThreshold |-> escalation, preemptiveBlockThreshold |-> block]

\* preemptiveRiskLift: absent, between and on the default thresholds, above 1
PreemptiveRiskLifts == {undefined, <<1400>>, <<2000>>, <<3000>>, <<12000>>}

\* <<escalation threshold, block threshold>>: the defaults, block below
\* escalation, block above 1
ThresholdOverrides ==
    {<<undefined, undefined>>, <<(<<5000>>), (<<1000>>)>>, <<(<<1000>>), (<<15000>>)>>}

\* calls that vary the preemptive lift and its thresholds
EscalationArgs ==
    {[scoreResult |-> [decisionScore |-> score, dimensionScores |-> DimensionScoresWith(3)],
      context |-> ClassificationContext(5000, undefined, undefined, lift, t[1], t[2])] :
        score \in DecisionScores, lift \in PreemptiveRiskLifts, t \in ThresholdOverrides}

RiskPostures == {-5000, 400, 15000}

\* supplied recentViolationTrend snapshots: the maximum, and values outside [0, 1]
SuppliedTrends ==
    {undefined,
     <<[violationRate |-> SUnit, momentum |-> SUnit, severityAdjustedRate |-> SUnit]>>,
     <<[violationRate |-> 0, momentum |-> -30000, severityAdjustedRate |-> 50000]>>}

\* <<supplied entropyLevel, number of positive dimension scores>>
EntropySources ==
    {<<undefined, 0>>, <<undefined, 1>>, <<undefined, 3>>, <<undefined, 9>>,
     <<(<<-2000>>), 3>>, <<(<<15000>>), 3>>}

\* calls that vary the signals the threshold band adapts to
BandArgs ==
    {[scoreResult |-> [decisionScore |-> score, dimensionScores |-> DimensionScoresWith(e[2])],
      context |-> ClassificationContext(posture, e[1], trend, undefined, undefined, undefined)] :
        score \in DecisionScores, posture \in RiskPostures, e \in EntropySources,
        trend \in SuppliedTrends}

ClassifyArgs == EscalationArgs \cup BandArgs

InitClassify ==
    /\ InitOverride
    /\ InitEngines
    /\ InitPreemptive
    /\ InitOptimization
    /\ InitFeedback
    /\ args \in ClassifyArgs
    /\ outcome = NoCall
    /\ answers = NoAnswers

\* ClassificationEngine.classify(scoreResult, context)
Classify ==
    /\ outcome' = Returned("classify", 0,
                           classify(args.scoreResult, args.context, violationHistory))
    /\ UNCHANGED <<ovVars, seVars, ceVars, pdVars, args, answers, toVars, hfVars>>

NextClassify ==
    \/ \E f \in Feedbacks : Len(recorded) < MaxEvents /\ RecordOutcome(f)
    \/ Classify

SpecClassify == InitClassify /\ [][NextClassify]_vars

StateRank(state) ==
    CASE state = "auto-approve" -> 0
      [] state = "flag-for-review" -> 1
      [] state = "block" -> 2

\* C5: the state classify returns is the base state or a more conservative one in
\* the order auto-approve < flag-for-review < block, for every preemptive lift and
\* every pair of thresholds in any order: flag-for-review and block never become
\* auto-approve, and block never becomes flag-for-review.
C5_EscalationNeverRelaxes ==
    outcome.op = "classify" =>
        LET state == outcome.result.state
            baseState == outcome.result.baseState
        IN  /\ state \in ClassificationStates
            /\ StateRank(state) >= StateRank(baseState)
            /\ baseState \in {"block", "flag-for-review"} => state # "auto-approve"
            /\ baseState = "block" => state = "block"

\* with the block threshold below the escalation threshold, a lift between the two
\* has turned an auto-approve into a block
C5_Witness ==
    /\ outcome.op = "classify"
    /\ args.context.preemptiveBlockThreshold = <<1000>>
    /\ args.context.preemptiveEscalationThreshold = <<5000>>
    /\ args.context.preemptiveRiskLift = <<2000>>
    /\ outcome.result.baseState = "auto-approve"
    /\ outcome.result.state = "block"

\* C6: the thresholdBand every classify call returns has autoApproveMin - blockMax
\* >= 12, autoApproveMin in [50, 95] and blockMax in [5, 70] (1e-2 units), whatever
\* the risk posture, the entropy level and the violation trend.
C6_ThresholdBandBounds ==
    outcome.op = "classify" =>
        LET band == outcome.result.thresholdBand
        IN  /\ band.autoApproveMin - band.blockMax >= 1200
            /\ band.autoApproveMin >= 5000 /\ band.autoApproveMin <= 9500
            /\ band.blockMax >= 500 /\ band.blockMax <= 7000

\* classify has returned the most conservative band (94, 64): posture and supplied
\* entropy above 1, maximal supplied trend
C6_Witness ==
    /\ outcome.op = "classify"
    /\ args.context.riskPosture > SUnit
    /\ args.context.entropyLevel # undefined
    /\ outcome.result.thresholdBand = [blockMax |-> 6400, autoApproveMin |-> 9400]

-----------------------------------------------------------------------------
(* A PreemptiveDetectionLayer that learns from recorded outcomes and is    *)
(* asked to assess one decision, chosen initially.                         *)

MaxOutcomes == 4                \* outcomes recorded in a behaviour

\* constructor options: the defaults, and a history of at most three records
PreemptiveOptions == {DefaultOptions, [DefaultOptions EXCEPT !.maxHistorySize = 3]}

\* DecisionObject, reduced to the fields the signatures are built from: the
\* decisions whose outcomes recordDecisionOutcome is given
DeployDecisions ==
    {[actionType |-> "deploy", agentType |-> undefined, layer |-> "core",
      permissions |-> <<"write", "read">>, policyExposure |-> <<>>],
     [actionType |-> "DEPLOY", agentType |-> <<"planner">>, layer |-> "edge",
      permissions |-> <<"READ", "WRITE">>, policyExposure |-> <<70, 150>>]}

TransferDecision ==
    [actionType |-> "transfer", agentType |-> undefined, layer |-> "core",
     permissions |-> <<"read">>, policyExposure |-> <<40>>]

\* the decisions assess is asked about
PreemptiveDecisions == DeployDecisions \cup {TransferDecision}

\* the records recordOutcome is given directly: no policyExposure, severity above 1
DirectRecords ==
    {[actionType |-> "transfer", agentType |-> undefined, layer |-> "core",
      permissions |-> <<"read">>, policyExposure |-> <<>>,
      complianceFailure |-> TRUE, downstreamFailure |-> FALSE, severity |-> 150]}

\* what is reported of a decision's outcome (severity in 1e-2 units)
OutcomeReports ==
    {[complianceFailure |-> TRUE, downstreamFailure |-> TRUE, severity |-> 150],
     [complianceFailure |-> FALSE, downstreamFailure |-> TRUE, severity |-> 40]}

\* the DownstreamOutcomeRecord recordDecisionOutcome builds
DownstreamOutcomeRecord(decision, report) ==
    [actionType |-> decision.actionType, agentType |-> decision.agentType,
     layer |-> decision.layer, permissions |-> decision.permissions,
     policyExposure |-> decision.policyExposure,
     complianceFailure |-> report.complianceFailure,
     downstreamFailure |-> report.downstreamFailure,
     severity |-> report.severity]

InitDetection ==
    /\ InitOverride
    /\ InitEngines
    /\ options \in PreemptiveOptions
    /\ InitOptimization
    /\ InitFeedback
    /\ history = <<>>
    /\ patternMap = <<>>
    /\ reported = <<>>
    /\ args \in PreemptiveDecisions
    /\ outcome = NoCall
    /\ answers = NoAnswers

\* PreemptiveDetectionLayer.recordOutcome(record)
RecordDownstreamOutcome(record) ==
    /\ history' = pushOutcome(options, history, record)
    /\ patternMap' = recomputePatterns(options, history')
    /\ reported' = Append(reported, history'[Len(history')])
    /\ outcome' = Returned("recordOutcome", 0, "ok")
    /\ UNCHANGED <<options, ovVars, seVars, ceVars, args, answers, toVars, hfVars>>

\* PreemptiveDetectionLayer.recordDecisionOutcome(decision, outcome)
RecordDecisionOutcome(decision, report) ==
    /\ history' = pushOutcome(options, history, DownstreamOutcomeRecord(decision, report))
    /\ patternMap' = recomputePatterns(options, history')
    /\ reported' = Append(reported, history'[Len(history')])
    /\ outcome' = Returned("recordDecisionOutcome", 0, "ok")
    /\ UNCHANGED <<options, ovVars, seVars, ceVars, args, answers, toVars, hfVars>>

\* PreemptiveDetectionLayer.assess(decision)
Assess ==
    /\ outcome' = Returned("assess", 0, assess(options, patternMap, args))
    /\ UNCHANGED <<ovVars, seVars, ceVars, pdVars, args, answers, toVars, hfVars>>

NextDetection ==
    \/ \E record \in DirectRecords :
            /\ Len(reported) < MaxOutcomes
            /\ RecordDownstreamOutcome(record)
    \/ \E d \in DeployDecisions, r \in OutcomeReports :
            /\ Len(reported) < MaxOutcomes
            /\ RecordDecisionOutcome(d, r)
    \/ Assess

SpecDetection == InitDetection /\ [][NextDetection]_vars

\* the signatures of each retained record
RetainedSignatures == [i \in 1..Len(history) |-> {getSignatures(history[i])[k] : k \in 1..6}]

\* the retained records that carry a signature
Carrying(signature) == {i \in 1..Len(history) : signature \in RetainedSignatures[i]}

\* the decision's signatures that some retained record carries
MatchingSignatures(decision) ==
    {getSignatures(decision)[k] : k \in 1..6} \cap DOMAIN patternMap

\* C8: assess on a decision all of whose matching signatures have sampleSize below
\* minSamplesForActivation returns riskLift = 0, whatever the failure rates and
\* severities of the recorded outcomes.
C8_InactiveSignaturesLiftNothing ==
    outcome.op = "assess" =>
        LET matching == MatchingSignatures(args)
        IN  (\A signature \in matching :
                /\ Cardinality(Carrying(signature)) < options.minSamplesForActivation
                /\ patternMap[signature].sampleSize < options.minSamplesForActivation)
            => outcome.result.riskLift = 0

\* assess has returned 0 for a decision matched only by signatures seen twice, both
\* times with a compliance and downstream failure of full severity
C8_Witness ==
    /\ outcome.op = "assess"
    /\ outcome.result.riskLift = 0
    /\ MatchingSignatures(args) # {}
    /\ \A signature \in MatchingSignatures(args) :
            /\ patternMap[signature].sampleSize = 2
            /\ patternMap[signature].weightedFailureEvents = 200
            /\ patternMap[signature].weightedSeverityTotal = 20000

-----------------------------------------------------------------------------
(* Calibration writes to a RiskScoringEngine.                               *)

MaxWrites == 3                  \* calibration writes in a behaviour

\* the predicted score and the observation of an updateCalibrationFromFeedback
\* call: probabilities far outside [0, 1], a large cost overrun
CalibrationObservations ==
    {[predictedCompliance |-> 10000, complianceObserved |-> -500,
      stabilityIncidentOccurred |-> TRUE, costOverrunRatio |-> 5000],
     [predictedCompliance |-> -9000, complianceObserved |-> 2000,
      stabilityIncidentOccurred |-> FALSE, costOverrunRatio |-> 50],
     [predictedCompliance |-> 500, complianceObserved |-> 1000,
      stabilityIncidentOccurred |-> FALSE, costOverrunRatio |-> 60]}

\* requested learning rates (1e-4 units): negative, inside and far above the range
RequestedLearningRates == {-100, 400, 99999}

\* weight deltas of a batch write (1e-4 units): +50 and -50 on every dimension,
\* and a partial record
DeltaVectors ==
    {[d \in RiskDimensions |-> 500000], [d \in RiskDimensions |-> -500000],
     [d \in {"operationalRisk", "financialCost"} |->
        IF d = "operationalRisk" THEN 9000 ELSE -1500]}

\* RiskScoringEngine.updateCalibrationFromFeedback(predicted, actualOutcome, learningRate)
UpdateCalibrationFromFeedback(observation, learningRate) ==
    /\ adaptiveMultipliers' =
            updateCalibrationFromFeedback(adaptiveMultipliers, observation.predictedCompliance,
                                          observation, learningRate)
    /\ calibrationWrites' = Append(calibrationWrites, EffectiveLearningRate(learningRate))
    /\ outcome' = Returned("updateCalibrationFromFeedback", 0, "ok")
    /\ answers' = NoAnswers
    /\ UNCHANGED <<ovVars, ceVars, pdVars, args, toVars, hfVars>>

\* RiskScoringEngine.applyAdaptiveMultiplierDeltas(deltas, learningRate)
ApplyAdaptiveMultiplierDeltas(deltas, learningRate) ==
    /\ adaptiveMultipliers' =
            applyAdaptiveMultiplierDeltas(adaptiveMultipliers, deltas, learningRate)
    /\ calibrationWrites' = Append(calibrationWrites, EffectiveLearningRate(learningRate))
    /\ outcome' = Returned("applyAdaptiveMultiplierDeltas", 0, "ok")
    /\ UNCHANGED <<ovVars, ceVars, pdVars, args, answers, toVars, hfVars>>

NextCalibration ==
    \/ \E o \in CalibrationObservations, lr \in RequestedLearningRates :
            /\ Len(calibrationWrites) < MaxWrites
            /\ UpdateCalibrationFromFeedback(o, lr)
    \/ \E deltas \in DeltaVectors, lr \in RequestedLearningRates :
            /\ Len(calibrationWrites) < MaxWrites
            /\ ApplyAdaptiveMultiplierDeltas(deltas, lr)

SpecCalibration == Init /\ [][NextCalibration]_vars

\* C9: after any sequence of calibration writes, with any observation values and
\* any requested learning rate, each of the nine adaptive multipliers is within
\* [0.5, 2.5] and the learning rate each write used is within [0.005, 0.2].
C9_CalibrationBounds ==
    /\ \A d \in RiskDimensions :
            /\ adaptiveMultipliers[d] >= 50000000
            /\ adaptiveMultipliers[d] <= 250000000
    /\ \A i \in 1..Len(calibrationWrites) :
            /\ calibrationWrites[i] >= 50
            /\ calibrationWrites[i] <= 2000

\* writes requested with rates below and above the range have driven one
\* multiplier to 2.5 and another to 0.5
C9_Witness ==
    /\ \E d \in RiskDimensions : adaptiveMultipliers[d] = 250000000
    /\ \E d \in RiskDimensions : adaptiveMultipliers[d] = 50000000
    /\ \E i \in 1..Len(calibrationWrites) : calibrationWrites[i] = 50
    /\ \E i \in 1..Len(calibrationWrites) : calibrationWrites[i] = 2000
    /\ outcome.op = "updateCalibrationFromFeedback"

-----------------------------------------------------------------------------
(* scoreDecision on a RiskScoringEngine between calibration writes.  The   *)
(* decision, context and system state of the scoreDecision calls of a      *)
(* behaviour are chosen initially.                                         *)

MaxCalibrations == 2            \* calibration writes in a behaviour

\* systemState.loadFactor (1e-1 units): negative, zero, typical, above 1
LoadFactors == {-50, 0, 5, 20}

\* context.budgetPressure and context.dataSensitivity (1e-1 units)
BudgetPressures == {undefined, <<-3>>, <<25>>}

DataSensitivities == {undefined, <<10>>}

\* context.dimensionPriorities: none; a boost of 1/4 on every dimension; boosts
\* of 5 and 1.5 with two invalid ones
DimensionPriorities ==
    {<<>>,
     [d \in RiskDimensions |-> [num |-> 1, den |-> 4]],
     [d \in {"simulationImpact", "financialCost", "operationalRisk", "regulatoryExposure"} |->
        CASE d = "simulationImpact" -> [num |-> 5, den |-> 1]
          [] d = "financialCost" -> [num |-> 3, den |-> 2]
          [] d = "operationalRisk" -> [num |-> 0, den |-> 1]
          [] d = "regulatoryExposure" -> [num |-> -2, den |-> 1]]}

\* a DecisionObject with every number within its documented range, reduced to the
\* fields scoreDecision reads (authorityScope.permissions as permissions, intent as
\* its length, potentialViolations as their number)
TypicalDecision ==
    [permissions |-> <<"read">>,
     intentLength |-> 52,
     requiredResources |-> <<[type |-> "CPU", amount |-> 400, criticality |-> "MEDIUM"]>>,
     policyExposure |-> <<[exposureLevel |-> 40, potentialViolations |-> 1]>>,
     projectedImpact |->
        [systemStabilityScore |-> 60, trustWeightedPropagation |-> 30,
         estimatedRecoveryTimeSeconds |-> 600, realWorldTaskImpact |-> 50,
         predictiveSynergyDensity |-> 70, cooperativeIntelligenceEvolution |-> 20],
     complianceForecast |-> undefined,
     strategicAlignment |-> undefined,
     resourceAnalysis |->
        [computationalCostScore |-> 30, estimatedFinancialExpenditureUSD |-> <<40>>,
         bandwidthUtilizationMbps |-> 20, opportunityTradeoffScore |-> 50,
         projectedOpportunityCostOfBlockingUSD |-> 120, economicEfficiencyScore |-> 80]]

\* the sub-assessments attached to a decision: a ComplianceForecast and a
\* StrategicAlignmentAssessment, reduced to the number scoreDecision reads (1e-4)
Assessed(decision, overallProbability, misalignmentPenalty) ==
    [decision EXCEPT !.complianceForecast = <<[overallProbability |-> overallProbability]>>,
                     !.strategicAlignment = <<[misalignmentPenalty |-> misalignmentPenalty]>>]

\* a decision whose numbers are far above their ranges
ExcessiveDecision ==
    [permissions |-> <<"read", "write", "delete", "admin", "execute", "grant">>,
     intentLength |-> 8,
     requiredResources |-> <<[type |-> "HUMAN_REVIEW_MINUTES", amount |-> 5000,
                              criticality |-> "HIGH"],
                             [type |-> "GPU", amount |-> 9000, criticality |-> "HIGH"]>>,
     policyExposure |-> <<[exposureLevel |-> 250, potentialViolations |-> 12],
                          [exposureLevel |-> 900, potentialViolations |-> 7]>>,
     projectedImpact |->
        [systemStabilityScore |-> -500, trustWeightedPropagation |-> -400,
         estimatedRecoveryTimeSeconds |-> 90000, realWorldTaskImpact |-> 300,
         predictiveSynergyDensity |-> 500, cooperativeIntelligenceEvolution |-> 700],
     complianceForecast |-> undefined,
     strategicAlignment |-> undefined,
     resourceAnalysis |->
        [computationalCostScore |-> 400, estimatedFinancialExpenditureUSD |-> undefined,
         bandwidthUtilizationMbps |-> 5000, opportunityTradeoffScore |-> 300,
         projectedOpportunityCostOfBlockingUSD |-> 10000, economicEfficiencyScore |-> 200]]

\* a decision whose numbers are far below their ranges
DeficientDecision ==
    [permissions |-> <<>>,
     intentLength |-> 0,
     requiredResources |-> <<[type |-> "CPU", amount |-> -5000, criticality |-> "LOW"]>>,
     policyExposure |-> <<[exposureLevel |-> -300, potentialViolations |-> 0]>>,
     projectedImpact |->
        [systemStabilityScore |-> 500, trustWeightedPropagation |-> 400,
         estimatedRecoveryTimeSeconds |-> -3600, realWorldTaskImpact |-> -300,
         predictiveSynergyDensity |-> -200, cooperativeIntelligenceEvolution |-> -700],
     complianceForecast |-> undefined,
     strategicAlignment |-> undefined,
     resourceAnalysis |->
        [computationalCostScore |-> -100, estimatedFinancialExpenditureUSD |-> <<-250>>,
         bandwidthUtilizationMbps |-> -100, opportunityTradeoffScore |-> -50,
         projectedOpportunityCostOfBlockingUSD |-> -600, economicEfficiencyScore |-> -50]]

\* decisions with and without sub-assessments, those with probabilities and
\* penalties of 1.7 and 2.5, and of -0.4 and -0.3
AssessedDecisions ==
    {ExcessiveDecision, DeficientDecision,
     Assessed(TypicalDecision, 9100, 1500),
     Assessed(ExcessiveDecision, 17000, 25000),
     Assessed(DeficientDecision, -4000, -3000)}

\* the calls whose weights are studied: every combination of the context and
\* system-state fields recalibrateWeights reads
WeightArgs ==
    [decision : {TypicalDecision, [TypicalDecision EXCEPT !.permissions = <<"read", "write">>]},
     context : [budgetPressure : BudgetPressures, dataSensitivity : DataSensitivities,
                dimensionPriorities : DimensionPriorities,
                historicalComplianceRate : {undefined}],
     systemState : [loadFactor : LoadFactors, incidentActive : BOOLEAN,
                    regulatoryAlert : BOOLEAN, recoveryBacklogSeconds : {900}]]

\* the calls whose scores are studied: decisions, contexts and system states with
\* numbers outside their ranges
RangeArgs ==
    [decision : AssessedDecisions,
     context : {[budgetPressure |-> undefined, dataSensitivity |-> undefined,
                 dimensionPriorities |-> <<>>, historicalComplianceRate |-> undefined],
                [budgetPressure |-> <<25>>, dataSensitivity |-> <<40>>,
                 dimensionPriorities |-> <<>>, historicalComplianceRate |-> <<30000>>],
                [budgetPressure |-> <<-3>>, dataSensitivity |-> <<-10>>,
                 dimensionPriorities |-> <<>>, historicalComplianceRate |-> <<-2000>>]},
     systemState : {[loadFactor |-> 20, incidentActive |-> TRUE, regulatoryAlert |-> TRUE,
                     recoveryBacklogSeconds |-> 99999],
                    [loadFactor |-> -5, incidentActive |-> FALSE, regulatoryAlert |-> FALSE,
                     recoveryBacklogSeconds |-> -7200]}]

ScoringArgs == WeightArgs \cup RangeArgs

InitScoreDecision ==
    /\ InitOverride
    /\ InitEngines
    /\ InitPreemptive
    /\ InitOptimization
    /\ InitFeedback
    /\ args \in ScoringArgs
    /\ outcome = NoCall
    /\ answers = NoAnswers

\* RiskScoringEngine.scoreDecision(decision, context, systemState)
ScoreDecision ==
    /\ outcome' = Returned("scoreDecision", 0,
            scoreDecision(adaptiveMultipliers, args.decision, args.context, args.systemState))
    /\ UNCHANGED <<ovVars, seVars, ceVars, pdVars, args, answers, toVars, hfVars>>

\* weight vectors given to normalizeWeights directly (1e-4 units): none positive,
\* one positive
ProbeWeights ==
    {[d \in RiskDimensions |-> IF d = "operationalRisk" THEN 0 ELSE -1],
     [d \in RiskDimensions |-> IF d = "financialCost" THEN 8000 ELSE -3000]}

\* the observations between scoreDecision calls: those with a predicted
\* compliance outside [0, 1]
ScoringObservations ==
    {o \in CalibrationObservations : o.predictedCompliance < 0 \/ o.predictedCompliance > 1000}

\* RiskScoringEngine.normalizeWeights(weights), the last step of recalibrateWeights,
\* on a weight vector of its own
NormalizeWeights(weights) ==
    /\ outcome' = Returned("normalizeWeights", 0,
                           [given |-> weights, weights |-> normalizeWeights(weights)])
    /\ UNCHANGED <<ovVars, seVars, ceVars, pdVars, args, answers, toVars, hfVars>>

NextScoreDecision ==
    \/ \E o \in ScoringObservations :
            /\ Len(calibrationWrites) < MaxCalibrations
            /\ UpdateCalibrationFromFeedback(o, LearningRateMax)
    \/ ScoreDecision
    \/ \E weights \in ProbeWeights : NormalizeWeights(weights)

SpecScoreDecision == InitScoreDecision /\ [][NextScoreDecision]_vars

\* the weights are nine fractions over one positive denominator, none negative,
\* that sum to 1
SumToOne(weights) ==
    LET den == weights["operationalRisk"].den
    IN  /\ DOMAIN weights = RiskDimensions
        /\ den > 0
        /\ \A d \in RiskDimensions : weights[d].den = den /\ weights[d].num >= 0
        /\ SumSeq([i \in 1..9 |-> weights[DimensionOrder[i]].num]) = den

\* the sum of the weights after each negative one is taken as 0
PositivePart(given) ==
    SumSeq([i \in 1..9 |-> IF given[DimensionOrder[i]] > 0 THEN given[DimensionOrder[i]] ELSE 0])

C11_ScoresWithinRanges ==
    outcome.op = "scoreDecision" =>
        /\ \A d \in RiskDimensions :
                /\ outcome.result.breakdown.dimensionScores[d] >= 0
                /\ outcome.result.breakdown.dimensionScores[d] <= SUnit
        /\ outcome.result.riskPressure >= 0
        /\ outcome.result.riskPressure <= SUnit
        /\ outcome.result.decisionScore >= 0
        /\ outcome.result.decisionScore <= 100 * 100

-----------------------------------------------------------------------------
(* A ThresholdOptimizationEngine that is fed signals, runs optimization    *)
(* cycles on the two engines and is rolled back.                           *)

MaxSignals == 5                 \* signals created in a behaviour

\* constructor options: those of main, and a cycle every two signals with a
\* history of three versions and of two
OptimizationOptionSets ==
    {MainOptimizationOptions,
     [MainOptimizationOptions EXCEPT !.minimumSignalCount = 2, !.maxVersionHistory = 3],
     [MainOptimizationOptions EXCEPT !.minimumSignalCount = 2, !.maxVersionHistory = 2]}

\* createFalsePositiveSignal and createMissedViolationSignal (with a confidence
\* above 1), as main calls them
CreatedSignals(signalId) ==
    {OptimizationSignal(signalId, "FalsePositive", 8500,
                        {"regulatoryExposure", "operationalRisk"}, FALSE),
     OptimizationSignal(signalId, "MissedViolation", 15000,
                        {"regulatoryExposure", "financialCost"}, TRUE)}

\* overrideAdaptationSignal: absent, or the rates of mostly rejected overrides
AdaptationSignals == {undefined, <<[approvalRate |-> 2500, rejectionRate |-> 7500]>>}

InitOptimizer ==
    /\ InitOverride
    /\ InitEngines
    /\ InitPreemptive
    /\ \E opts \in OptimizationOptionSets : InitOptimizationWith(opts)
    /\ InitFeedback
    /\ args = NoArgs
    /\ outcome = NoCall
    /\ answers = NoAnswers

\* ingestSignal(signal)
IngestSignal(signal) ==
    /\ pendingSignals' = Append(pendingSignals, signal)
    /\ signalCount' = signalCount + 1
    /\ outcome' = Returned("ingestSignal", 0, "ok")
    /\ UNCHANGED <<optimizationOptions, versionHistory, appliedConfiguration, createdVersions,
                   ovVars, seVars, ceVars, pdVars, hfVars, args, answers>>

\* optimize(scoringEngine, classificationEngine, overrideAdaptationSignal?)
Optimize(adaptationSignal) ==
    IF ~hasEnoughSignals(optimizationOptions, pendingSignals)
    THEN /\ outcome' = Returned("optimize", 0, undefined)
         /\ UNCHANGED <<ovVars, seVars, ceVars, pdVars, toVars, hfVars, args, answers>>
    ELSE LET version == nextVersion(optimizationOptions, versionHistory, pendingSignals,
                                    adaptationSignal)
             dampened == Conflicting(pendingSignals)
             effectiveLearningRate ==
                IF dampened THEN optimizationOptions.baseLearningRate \div 2
                ELSE optimizationOptions.baseLearningRate
         IN  /\ versionHistory' = activateNewVersion(optimizationOptions, versionHistory, version)
             /\ createdVersions' = Append(createdVersions, version)
             /\ pendingSignals' = <<>>
             /\ appliedConfiguration' = ConfigurationOf(version)
             /\ adaptiveMultipliers' =
                    applyAdaptiveMultiplierDeltas(adaptiveMultipliers,
                                                  dimensionDeltas(pendingSignals),
                                                  effectiveLearningRate)
             /\ calibrationWrites' =
                    Append(calibrationWrites, EffectiveLearningRate(effectiveLearningRate))
             /\ outcome' = Returned("optimize", 0,
                    <<[newVersion |-> version, signalsProcessed |-> Len(pendingSignals),
                       effectiveLearningRate |-> effectiveLearningRate,
                       dampened |-> dampened]>>)
             /\ UNCHANGED <<optimizationOptions, signalCount, ovVars, ceVars, pdVars, hfVars, args, answers>>

\* rollback(versionId, reason, scoringEngine, classificationEngine); a
\* ConfigVersion holds no multipliers, and the scoring engine keeps its own
Rollback(versionId) ==
    LET target == getVersion(versionHistory, versionId)
        current == getActiveVersion(versionHistory)[1].versionNumber
    IN  IF target = undefined
        THEN /\ outcome' = Returned("rollback", versionId,
                    [success |-> FALSE, rolledBackFrom |-> current, rolledBackTo |-> current])
             /\ UNCHANGED <<ovVars, seVars, ceVars, pdVars, toVars, hfVars, args, answers>>
        ELSE /\ versionHistory' = reactivate(versionHistory, versionId)
             /\ appliedConfiguration' = ConfigurationOf(target[1])
             /\ outcome' = Returned("rollback", versionId,
                    [success |-> TRUE, rolledBackFrom |-> current, rolledBackTo |-> versionId])
             /\ UNCHANGED <<optimizationOptions, pendingSignals, signalCount, createdVersions,
                            ovVars, seVars, ceVars, pdVars, hfVars, args, answers>>

\* getActiveVersion()
GetActiveVersion ==
    /\ outcome' = Returned("getActiveVersion", 0, getActiveVersion(versionHistory))
    /\ UNCHANGED <<ovVars, seVars, ceVars, pdVars, toVars, hfVars, args, answers>>

NextOptimizer ==
    \/ \E signal \in CreatedSignals(signalCount + 1) :
            signalCount < MaxSignals /\ IngestSignal(signal)
    \/ \E adaptationSignal \in AdaptationSignals : Optimize(adaptationSignal)
    \/ \E versionId \in 1..(Len(createdVersions) + 1) : Rollback(versionId)
    \/ GetActiveVersion

SpecOptimizer == InitOptimizer /\ [][NextOptimizer]_vars

\* the positions of the active versions in the version history
ActiveVersions == {i \in 1..Len(versionHistory) : versionHistory[i].active}

\* C12: at every point of every sequence of ingestSignal, optimize and rollback
\* calls, exactly one ConfigVersion of the version history is active, and
\* getActiveVersion returns that version.
C12_ExactlyOneActiveVersion ==
    /\ Cardinality(ActiveVersions) = 1
    /\ outcome.op = "getActiveVersion" =>
            \E i \in ActiveVersions : outcome.result = <<versionHistory[i]>>

\* getActiveVersion has returned a version that a rollback reactivated, which is
\* not the newest of three retained versions
C12_Witness ==
    /\ outcome.op = "getActiveVersion"
    /\ Len(versionHistory) >= 3
    /\ outcome.result[1].versionNumber < versionHistory[Len(versionHistory)].versionNumber
    /\ outcome.result[1].active

\* whether a version with the id is retained
Retained(versionId) == \E i \in 1..Len(versionHistory) : versionHistory[i].versionNumber = versionId

\* C13: rollback(v) to a retained version v succeeds, makes v the active version
\* with the thresholdBand and conservatismBias v had when it was created, leaves
\* exactly one version active and deletes no version: every version present
\* before, those created after v included, is in the version history afterwards.
C13_RollbackRestores ==
    [][(outcome'.op = "rollback" /\ Retained(outcome'.requestId)) =>
            LET v == outcome'.requestId
            IN  /\ outcome'.result.success
                /\ Len(versionHistory') = Len(versionHistory)
                /\ \A i \in 1..Len(versionHistory) :
                        /\ versionHistory'[i] =
                                [versionHistory[i] EXCEPT
                                    !.active = (versionHistory[i].versionNumber = v)]
                        /\ versionHistory'[i].active =>
                                /\ versionHistory'[i].versionNumber = v
                                /\ ConfigurationOf(versionHistory'[i]) =
                                        ConfigurationOf(createdVersions[v])
                /\ Cardinality({i \in 1..Len(versionHistory') : versionHistory'[i].active}) = 1
                /\ appliedConfiguration' = ConfigurationOf(createdVersions[v])]_vars

\* a rollback has reactivated the first version while two later versions, with
\* another threshold band, are retained
C13_Witness ==
    /\ outcome.op = "rollback"
    /\ outcome.result.success
    /\ outcome.result.rolledBackTo = 1
    /\ outcome.result.rolledBackFrom = 3
    /\ Len(versionHistory) = 3
    /\ versionHistory[1].active
    /\ versionHistory[3].thresholdBand # versionHistory[1].thresholdBand

\* C14: optimize returns none and changes nothing (active version, version
\* history, pending signals, multipliers, classification-engine state) whenever
\* fewer than minimumSignalCount signals are pending; ingestSignal only enqueues
\* the signal and changes neither the versions nor either engine.
C14_InsufficientSignalsNoOp ==
    [][/\ (outcome'.op = "optimize"
                /\ Len(pendingSignals) < optimizationOptions.minimumSignalCount) =>
            /\ outcome'.result = undefined
            /\ UNCHANGED <<versionHistory, pendingSignals, appliedConfiguration,
                           adaptiveMultipliers, violationHistory, historyWindowSize>>
       /\ outcome'.op = "ingestSignal" =>
            /\ Len(pendingSignals') = Len(pendingSignals) + 1
            /\ SubSeq(pendingSignals', 1, Len(pendingSignals)) = pendingSignals
            /\ UNCHANGED <<versionHistory, appliedConfiguration,
                           adaptiveMultipliers, violationHistory, historyWindowSize>>]_vars

\* optimize has returned none with signals pending, after an earlier cycle ran
C14_Witness ==
    /\ outcome.op = "optimize"
    /\ outcome.result = undefined
    /\ pendingSignals # <<>>
    /\ Len(createdVersions) > 1

-----------------------------------------------------------------------------
(* A HistoricalFeedbackIntegrator that is given batches of records.        *)

MaxFeedback == 8                \* records passed to integrate in a behaviour
MaxBatch == 2                   \* records in one batch

\* constructor options: the defaults, a history of four records evaluated
\* from three on, and a history too short to ever be evaluated
FeedbackOptionSets ==
    {DefaultFeedbackOptions,
     [DefaultFeedbackOptions EXCEPT !.maxHistorySize = 4, !.minimumSampleSize = 3],
     [DefaultFeedbackOptions EXCEPT !.maxHistorySize = 2, !.minimumSampleSize = 3]}

\* a decision scored 90 that turned out poorly, with simulation and compliance
\* predictions that were too high
OverpredictedRecord ==
    [actionType |-> "FILE_DELETE",
     predictedDecisionScore |-> 9000, realizedDecisionQuality |-> 3000,
     predictedSimulation |->
        <<[realWorldTaskImpact |-> 6000, predictiveSynergyDensity |-> 5000,
           trustWeightedInfluencePropagation |-> 4000,
           cooperativeIntelligenceEvolution |-> 2000]>>,
     realizedSimulation |->
        <<[realWorldTaskImpact |-> 1000, predictiveSynergyDensity |-> 5000,
           trustWeightedInfluencePropagation |-> -2000]>>,
     predictedCompliance |->
        <<[overallProbability |-> 9000,
           lifecycleStageProbabilities |-> [persistence |-> 9000, execution |-> 8000]]>>,
     realizedCompliance |->
        <<[overallObserved |-> 4000, lifecycleStageObserved |-> [persistence |-> 5000]]>>]

\* a record without simulation results whose numbers are outside their
\* documented ranges
OutOfRangeRecord ==
    [actionType |-> "DATA_EXPORT",
     predictedDecisionScore |-> 14000, realizedDecisionQuality |-> 13000,
     predictedSimulation |-> undefined, realizedSimulation |-> undefined,
     predictedCompliance |->
        <<[overallProbability |-> 12000, lifecycleStageProbabilities |-> <<>>]>>,
     realizedCompliance |->
        <<[overallObserved |-> -1000, lifecycleStageObserved |-> <<>>]>>]

FeedbackRecords == {OverpredictedRecord, OutOfRangeRecord}

\* the batches of up to MaxBatch records, the empty batch included
FeedbackBatches == UNION {[1..n -> FeedbackRecords] : n \in 0..MaxBatch}

InitIntegrator ==
    /\ InitOverride
    /\ InitEngines
    /\ InitPreemptive
    /\ InitOptimization
    /\ \E opts \in FeedbackOptionSets : InitFeedbackWith(opts)
    /\ args = NoArgs
    /\ outcome = NoCall
    /\ answers = NoAnswers

\* integrate(records)
Integrate(records) ==
    IF Len(records) = 0
    THEN /\ outcome' = Returned("integrate", 0, undefined)
         /\ UNCHANGED <<ovVars, seVars, ceVars, pdVars, toVars, hfVars, args, answers>>
    ELSE LET stored == pushRecords(feedbackOptions, feedbackHistory, records)
             sample == sampleOf(feedbackOptions, stored)
             report == integration(sample)
         IN  /\ feedbackHistory' = stored
             /\ feedbackCount' = feedbackCount + Len(records)
             /\ IF ~hasMinimumSample(feedbackOptions, sample)
                THEN /\ outcome' = Returned("integrate", Len(sample), undefined)
                     /\ UNCHANGED <<seVars, assumptions, complianceCalibration>>
                ELSE /\ adaptiveMultipliers' =
                            applyAdaptiveMultiplierDeltas(adaptiveMultipliers,
                                report.appliedWeightDeltas, feedbackOptions.weightLearningRate)
                     /\ calibrationWrites' =
                            Append(calibrationWrites,
                                   EffectiveLearningRate(feedbackOptions.weightLearningRate))
                     /\ assumptions' =
                            applyAssumptionDeltas(assumptions,
                                report.appliedSimulationAssumptionDeltas,
                                feedbackOptions.simulationLearningRate)
                     /\ complianceCalibration' =
                            applyHistoricalCalibration(complianceCalibration,
                                report.appliedComplianceCalibration,
                                feedbackOptions.complianceLearningRate)
                     /\ outcome' = Returned("integrate", Len(sample), <<report>>)
             /\ UNCHANGED <<feedbackOptions, ovVars, ceVars, pdVars, toVars, args, answers>>

NextIntegrator ==
    \E records \in FeedbackBatches :
        feedbackCount + Len(records) <= MaxFeedback /\ Integrate(records)

SpecIntegrator == InitIntegrator /\ [][NextIntegrator]_vars

\* C15: integrate returns null and applies no calibration to the scoring
\* engine, the simulation module or the compliance estimator whenever the
\* evaluated sample (the history after the batch is stored) has fewer than
\* minimumSampleSize records, the empty batch included; it calibrates, and
\* returns a report, only when the sample has at least minimumSampleSize records.
C15_NoCalibrationBelowMinimumSample ==
    [][outcome'.op = "integrate" =>
            LET sample == sampleOf(feedbackOptions, feedbackHistory')
                calibrated ==
                    \/ adaptiveMultipliers' # adaptiveMultipliers
                    \/ calibrationWrites' # calibrationWrites
                    \/ assumptions' # assumptions
                    \/ complianceCalibration' # complianceCalibration
            IN  /\ (Len(sample) < feedbackOptions.minimumSampleSize
                        \/ feedbackCount' = feedbackCount) =>
                        outcome'.result = undefined /\ ~calibrated
                /\ (calibrated \/ outcome'.result # undefined) =>
                        Len(sample) >= feedbackOptions.minimumSampleSize]_vars

\* with the default options, integrate has returned null for a batch that
\* left the sample one record short of the minimum of eight
C15_Witness ==
    /\ outcome.op = "integrate"
    /\ feedbackOptions = DefaultFeedbackOptions
    /\ outcome.result = undefined
    /\ feedbackCount > 0
    /\ outcome.requestId = Len(feedbackHistory)
    /\ Len(feedbackHistory) = feedbackOptions.minimumSampleSize - 1

-----------------------------------------------------------------------------
(* The audit trail of a HumanOverrideInterface over a long run of reviews: *)
(* each request is resolved before the next is created.                    *)

MaxSubmissions == 34            \* override requests created in a behaviour

\* adaptationWindowSize as passed to the constructor: below the minimum of 10,
\* and 11
AuditWindowSizes == {5, 11}

\* an active administrator
Administrator == [clearance |-> "ADMIN", active |-> TRUE]

\* whether every request created so far is resolved
AllResolved == \A r \in DOMAIN pendingRequests : pendingRequests[r].resolved

InitAudit ==
    /\ \E w \in AuditWindowSizes : InitOverrideWith(w, DefaultOverrideLearningRate)
    /\ InitEngines
    /\ InitPreemptive
    /\ InitOptimization
    /\ InitFeedback
    /\ args = NoArgs
    /\ outcome = NoCall
    /\ answers = NoAnswers

\* a request is created once the last one is resolved; the administrator
\* approves the latest request, or names a request that does not exist
NextAudit ==
    \/ \E p \in PredictedCompliances :
            AllResolved /\ nextRequestId <= MaxSubmissions /\ CreateOverrideRequest(p)
    \/ \E r \in {nextRequestId - 1, nextRequestId} :
            SubmitOverride(r, Administrator, "APPROVED", 8)

SpecAudit == InitAudit /\ [][NextAudit]_vars

\* C16: the override history never holds more than 3 W records, where W is
\* adaptationWindowSize; a successful submitOverride whose append would exceed
\* 3 W leaves exactly the most recent 2 W records, in submission order, every
\* other successful submitOverride appends its record and drops none, and no
\* other call changes the history.
C16_HistoryTrim ==
    [][/\ Len(overrideHistory') <= 3 * adaptationWindowSize
       /\ overrideHistory' = LastN(submitted', Len(overrideHistory'))
       /\ IF outcome'.op = "submitOverride" /\ outcome'.result = "ok"
          THEN IF Len(overrideHistory) + 1 > 3 * adaptationWindowSize
               THEN Len(overrideHistory') = 2 * adaptationWindowSize
               ELSE overrideHistory' = Append(overrideHistory, submitted'[Len(submitted')])
          ELSE overrideHistory' = overrideHistory]_vars

\* the submission that cut a history of 3 W records to 2 W has happened
C16_Witness ==
    /\ outcome.op = "submitOverride"
    /\ outcome.result = "ok"
    /\ Len(submitted) = 3 * adaptationWindowSize + 1
    /\ Len(overrideHistory) = 2 * adaptationWindowSize
    /\ overrideHistory[1].requestId = adaptationWindowSize + 2

-----------------------------------------------------------------------------
(* Reviews at every level of confidence: what a successful submitOverride  *)
(* passes to the two engines.                                              *)

MaxReviews == 2                 \* override requests created in a behaviour

\* rationale.confidenceLevel as submitted (1e-1 units): below, within and above
\* [0, 1], with 0.7 and 0.8 on either side of the stability-incident test
ReviewConfidenceLevels == {-5, 7, 8, 15}

NextReview ==
    \/ \E p \in PredictedCompliances :
            nextRequestId <= MaxReviews /\ CreateOverrideRequest(p)
    \/ \E r \in 1..(MaxReviews + 1), v \in Verdicts, c \in ReviewConfidenceLevels :
            SubmitOverride(r, Administrator, v, c)

SpecReview == Init /\ [][NextReview]_vars

\* the record of the successful submitOverride call a step made
SubmittedRecord == submitted'[Len(submitted')]

\* whether the step is a successful submitOverride call
SubmitSucceeds == outcome'.op = "submitOverride" /\ outcome'.result = "ok"

\* C18: each successful submitOverride passes exactly one outcome to the
\* classification engine, which the engine stores as its latest event:
\* violated = false, severity 0 for APPROVED; violated = true, severity
\* 0.4 + 0.5 confidence for REJECTED; violated = true, severity 0.2 for
\* ESCALATED, with the confidence clamped to [0, 1].
C18_ClassificationOutcomePerVerdict ==
    [][SubmitSucceeds =>
            LET verdict == SubmittedRecord.verdict
                c == SubmittedRecord.confidenceLevel
                expected ==
                    CASE verdict = "APPROVED" -> [violated |-> FALSE, severity |-> 0]
                      [] verdict = "REJECTED" ->
                            [violated |-> TRUE, severity |-> 4000 + 500 * c]
                      [] verdict = "ESCALATED" -> [violated |-> TRUE, severity |-> 2000]
            IN  /\ c \in 0..10
                /\ recorded' = Append(recorded, expected)
                /\ violationHistory' = Append(violationHistory, expected)]_vars

\* a rejection of confidence 0.7 has been recorded with severity 0.75
C18_Witness ==
    /\ outcome.op = "submitOverride"
    /\ outcome.result = "ok"
    /\ submitted[Len(submitted)].verdict = "REJECTED"
    /\ submitted[Len(submitted)].confidenceLevel = 7
    /\ recorded[Len(recorded)] = [violated |-> TRUE, severity |-> 7500]

\* C19: each successful submitOverride passes exactly one observation to the
\* scoring engine: for APPROVED, observed compliance 0.85 + 0.15 c, no stability
\* incident and cost-overrun ratio 0.6; for REJECTED, observed compliance
\* 0.2 + 0.3 (1 - c), a stability incident exactly when c > 0.7 and cost-overrun
\* ratio 1.2 + 0.5 c, where c is the clamped confidence.
C19_ScoringObservationPerVerdict ==
    [][SubmitSucceeds =>
            LET verdict == SubmittedRecord.verdict
                c == SubmittedRecord.confidenceLevel
                fed == fedObservations'[Len(fedObservations')]
            IN  /\ Len(fedObservations') = Len(fedObservations) + 1
                /\ SubSeq(fedObservations', 1, Len(fedObservations)) = fedObservations
                /\ Len(calibrationWrites') = Len(calibrationWrites) + 1
                /\ verdict = "APPROVED" =>
                        /\ fed.complianceObserved = 850 + 15 * c
                        /\ ~fed.stabilityIncidentOccurred
                        /\ fed.costOverrunRatio = 60
                /\ verdict = "REJECTED" =>
                        /\ fed.complianceObserved = 200 + 30 * (10 - c)
                        /\ fed.stabilityIncidentOccurred <=> (c > 7)
                        /\ fed.costOverrunRatio = 120 + 5 * c
                /\ adaptiveMultipliers' =
                        updateCalibrationFromFeedback(adaptiveMultipliers,
                            pendingRequests[outcome'.requestId].predictedCompliance,
                            fed, fed.modulatedLearningRate)]_vars

\* a rejection of confidence 0.8 has been fed as compliance 0.26 with a
\* stability incident and cost-overrun ratio 1.6
C19_Witness ==
    /\ outcome.op = "submitOverride"
    /\ outcome.result = "ok"
    /\ submitted[Len(submitted)].verdict = "REJECTED"
    /\ submitted[Len(submitted)].confidenceLevel = 8
    /\ fedObservations[Len(fedObservations)].complianceObserved = 260
    /\ fedObservations[Len(fedObservations)].stabilityIncidentOccurred
    /\ fedObservations[Len(fedObservations)].costOverrunRatio = 160

\* C20: for every successful override, the learning rate with which the
\* multipliers are updated equals overrideLearningRate x confidence, for every
\* confidence in [0, 1], and an override of confidence 0 leaves every
\* multiplier unchanged.
C20_LearningRateProportionalToConfidence ==
    [][SubmitSucceeds =>
            LET c == SubmittedRecord.confidenceLevel
            IN  /\ calibrationWrites'[Len(calibrationWrites')] = overrideLearningRate * c
                /\ c = 0 => adaptiveMultipliers' = adaptiveMultipliers]_vars

-----------------------------------------------------------------------------
(* The seeding of the PreemptiveDetectionLayer in main: outcomes of        *)
(* decisions like the one under evaluation are recorded, the decision is   *)
(* assessed and an escalation is recommended.                              *)

MaxSeeds == 6                   \* outcomes recorded by the seeding loop

\* the options main constructs the layer with
DemoOptions ==
    [DefaultOptions EXCEPT !.minSamplesForActivation = 3,
                           !.minFailureRateForActivation = 40,
                           !.maxRiskLift = 35,
                           !.reviewEscalationLiftThreshold = 14,
                           !.blockEscalationLiftThreshold = 30]

\* the FILE_DELETE decision of main, reduced to the fields the signatures are
\* built from, with the policy exposures the framework may attach
DemoDecisions ==
    {[actionType |-> "FILE_DELETE", agentType |-> <<"MAINTENANCE_BOT">>, layer |-> "core",
      permissions |-> <<"write">>, policyExposure |-> exposure] :
        exposure \in {<<>>, <<70>>, <<20, 40>>}}

\* the i-th record of the seeding loop (i from 0): compliance failure on even
\* i, downstream failure always, severity 0.72 + 0.04 i
SeedRecord(decision, i) ==
    DownstreamOutcomeRecord(decision,
        [complianceFailure |-> (i % 2 = 0), downstreamFailure |-> TRUE,
         severity |-> 72 + 4 * i])

InitDemo ==
    /\ InitOverride
    /\ InitEngines
    /\ options \in {DemoOptions, DefaultOptions}
    /\ InitOptimization
    /\ InitFeedback
    /\ history = <<>>
    /\ patternMap = <<>>
    /\ reported = <<>>
    /\ args \in DemoDecisions
    /\ outcome = NoCall
    /\ answers = NoAnswers

\* preemptiveLayer.recommendClassificationEscalation(preemptiveLayer.assess(decision))
RecommendClassificationEscalation ==
    /\ outcome' = Returned("recommendClassificationEscalation", 0,
            recommendClassificationEscalation(options, assess(options, patternMap, args)))
    /\ UNCHANGED <<ovVars, seVars, ceVars, pdVars, args, answers, toVars, hfVars>>

NextDemo ==
    \/ Len(history) < MaxSeeds /\ RecordDownstreamOutcome(SeedRecord(args, Len(history)))
    \/ Assess
    \/ RecommendClassificationEscalation

SpecDemo == InitDemo /\ [][NextDemo]_vars

\* the layer is configured and seeded as main does: five records
SeededAsDemo == options = DemoOptions /\ Len(history) = 5

\* C17: with the options of main and five FILE_DELETE outcomes that share the
\* decision's signatures (three compliance failures, all downstream failures,
\* severities 0.72 .. 0.88), every pattern of the decision's signatures is
\* activated with a positive lift, assess returns riskLift > 0 with matched
\* patterns, and recommendClassificationEscalation recommends flag-for-review
\* or block.
C17_DemoSeedingEscalates ==
    SeededAsDemo =>
        /\ \A k \in 1..6 :
                /\ getSignatures(args)[k] \in DOMAIN patternMap
                /\ patternMap[getSignatures(args)[k]].sampleSize = 5
                /\ patternMap[getSignatures(args)[k]].preemptiveRiskLift > 0
        /\ outcome.op = "assess" =>
                /\ outcome.result.riskLift > 0
                /\ outcome.result.matchedPatternSignatures # <<>>
        /\ outcome.op = "recommendClassificationEscalation" =>
                /\ outcome.result.recommendedState # undefined
                /\ outcome.result.recommendedState[1] \in {"flag-for-review", "block"}

\* after the five seeds, an escalation to flag-for-review has been recommended
C17_Witness ==
    /\ SeededAsDemo
    /\ history[1].complianceFailure /\ ~history[2].complianceFailure
    /\ history[5].severity = 88
    /\ outcome.op = "recommendClassificationEscalation"
    /\ outcome.result.recommendedState = <<"flag-for-review">>

-----------------------------------------------------------------------------
(* The signals classify derives from the violation window.                 *)

\* the indices of the violating events of a window
ViolatingEvents(window) == {i \in 1..Len(window) : window[i].violated}

\* the sum of max(0.1, severity) over the violating events of a window (1e-4)
SeverityOfViolations(window) ==
    SumSeq([i \in 1..Len(window) |->
        IF window[i].violated THEN Max(1000, window[i].severity) ELSE 0])

\* a classify call that took its trend from the violation window has returned
ClassifiedOnHistory ==
    /\ outcome.op = "classify"
    /\ args.context.recentViolationTrend = undefined

\* violationTrendSignal = 0.7 severityAdjustedRate + 0.3 momentum of the window's
\* snapshot, as classify reports it (four decimals)
TrendSignalOfSnapshot ==
    ClassifiedOnHistory =>
        LET snapshot == computeViolationTrendSnapshot(violationHistory)
        IN  outcome.result.normalizedSignals.violationTrend =
                RoundDiv(7 * snapshot.severityAdjustedRate + 3 * snapshot.momentum, 10)

\* C21 (as stated): for every non-empty violation window, severityAdjustedRate
\* is the sum of max(0.1, severity) over the violating events divided by the
\* number of violating events, and violationTrendSignal is
\* 0.7 severityAdjustedRate + 0.3 momentum.
C21_SeverityMeanOverViolations ==
    /\ ViolatingEvents(violationHistory) # {} =>
            computeViolationTrendSnapshot(violationHistory).severityAdjustedRate =
                RoundDiv(SeverityOfViolations(violationHistory),
                         Cardinality(ViolatingEvents(violationHistory)))
    /\ TrendSignalOfSnapshot

\* C21 (amended): for every non-empty violation window, severityAdjustedRate is
\* the sum of max(0.1, severity) over the violating events divided by the number
\* of all events in the window (to four decimals), and violationTrendSignal is
\* 0.7 severityAdjustedRate + 0.3 momentum.
C21_SeverityRateOverWindow ==
    /\ violationHistory # <<>> =>
            computeViolationTrendSnapshot(violationHistory).severityAdjustedRate =
                RoundDiv(SeverityOfViolations(violationHistory), Len(violationHistory))
    /\ TrendSignalOfSnapshot

\* classify has used a window of one violating event among three
C21_Witness ==
    /\ ClassifiedOnHistory
    /\ Len(violationHistory) = 3
    /\ Cardinality(ViolatingEvents(violationHistory)) = 1
    /\ outcome.result.normalizedSignals.violationTrend > 0

\* classify has returned a band that neither range clamp of
\* normalizeThresholdBand has touched: both thresholds lie strictly inside their
\* ranges [50, 95] and [5, 70]
ClassifiedUnclamped ==
    /\ outcome.op = "classify"
    /\ outcome.result.thresholdBand.autoApproveMin > 5000
    /\ outcome.result.thresholdBand.autoApproveMin < 9500
    /\ outcome.result.thresholdBand.blockMax > 500
    /\ outcome.result.thresholdBand.blockMax < 7000

\* C22: for entropyLevel > 0.5 and no range clamp in effect, the width
\* autoApproveMin - blockMax of the band classify returns is larger than the
\* base width 30.
C22_EntropyWidensBand ==
    (ClassifiedUnclamped /\ outcome.result.normalizedSignals.entropyLevel > SUnit \div 2) =>
        outcome.result.thresholdBand.autoApproveMin
            - outcome.result.thresholdBand.blockMax > 3000

\* violationTrendSignal of classify on a violation window, in 1e-5 units
TrendSignalOf(window) ==
    LET snapshot == computeViolationTrendSnapshot(window)
    IN  clamp01(7 * snapshot.severityAdjustedRate + 3 * snapshot.momentum, 10 * SUnit)

\* the step records the outcome an APPROVED override feeds
RecordsApproval ==
    /\ recorded' # recorded
    /\ violationHistory' =
            recordOutcome(violationHistory, historyWindowSize,
                          classificationFeedback("APPROVED", 0).violated,
                          classificationFeedback("APPROVED", 0).severity)

\* C23: recording the non-violating outcome of an APPROVED override leaves the
\* violationTrendSignal, and the autoApproveMin and blockMax classify computes
\* for the same score result and context, no higher than they were before.
C23_ApprovalNeverTightens ==
    [][RecordsApproval =>
        LET before == classify(args.scoreResult, args.context, violationHistory)
            after == classify(args.scoreResult, args.context, violationHistory')
        IN  /\ TrendSignalOf(violationHistory') <= TrendSignalOf(violationHistory)
            /\ after.thresholdBand.autoApproveMin <= before.thresholdBand.autoApproveMin
            /\ after.thresholdBand.blockMax <= before.thresholdBand.blockMax]_vars

-----------------------------------------------------------------------------
(* The pattern aggregates of a PreemptiveDetectionLayer.                   *)

\* the sums recomputePatterns forms for a signature, taken over the records of
\* the given indices
AggregateOver(carrying) ==
    [sampleSize |-> Cardinality(carrying),
     weightedFailureEvents |->
        SumSeq([i \in 1..Len(history) |->
            IF i \in carrying THEN weightedFailure(history[i]) ELSE 0]),
     weightedSeverityTotal |->
        SumSeq([i \in 1..Len(history) |->
            IF i \in carrying THEN weightedFailure(history[i]) * history[i].severity ELSE 0])]

\* C24: the history holds the most recent maxHistorySize records passed to
\* recordOutcome, and the pattern aggregates are a full recompute over exactly
\* these: there is an aggregate for each signature a retained record carries and
\* for no other, its sampleSize is the number of retained records carrying it,
\* and its sums and riskLift come from those records alone.
C24_AggregatesOverRetained ==
    LET carried == [i \in 1..Len(history) |-> Range(getSignatures(history[i]))]
    IN  /\ Len(history) <= options.maxHistorySize
        /\ history = LastN(reported, options.maxHistorySize)
        /\ DOMAIN patternMap = UNION {carried[i] : i \in 1..Len(history)}
        /\ \A signature \in DOMAIN patternMap :
                LET aggregate == patternMap[signature]
                    retained ==
                        AggregateOver({i \in 1..Len(history) : signature \in carried[i]})
                IN  /\ aggregate.sampleSize = retained.sampleSize
                    /\ aggregate.weightedFailureEvents = retained.weightedFailureEvents
                    /\ aggregate.weightedSeverityTotal = retained.weightedSeverityTotal
                    /\ aggregate = withRiskLift(options, aggregate)

\* a record has been evicted from a history of three, and a signature it carried
\* has no aggregate any more
C24_Witness ==
    /\ outcome.op \in {"recordOutcome", "recordDecisionOutcome"}
    /\ Len(history) = options.maxHistorySize
    /\ Len(reported) > Len(history)
    /\ getSignatures(reported[1])[1] \notin DOMAIN patternMap
    /\ \E signature \in DOMAIN patternMap : patternMap[signature].sampleSize = 3

\* C25: assess returns as riskLift the maximum riskLift over the aggregates
\* matching the decision's signatures (to four decimals), with at most three
\* rationale lines that describe the strongest matches in descending riskLift
\* order; when no aggregate matches it returns riskLift 0 and the single
\* rationale that no pattern matched.
C25_AssessReportsStrongestMatches ==
    outcome.op = "assess" =>
        LET matching == MatchingSignatures(args)
            lift(signature) == patternMap[signature].preemptiveRiskLift
            rationale == outcome.result.rationale
            described == {rationale[i].signature : i \in 1..Len(rationale)}
        IN  IF matching = {}
            THEN /\ outcome.result.riskLift = 0
                 /\ rationale = <<"No activated historical risk pattern matched this decision">>
            ELSE /\ \E strongest \in matching :
                        /\ \A other \in matching : lift(other) <= lift(strongest)
                        /\ outcome.result.riskLift = RoundDiv(lift(strongest), SUnit)
                 /\ Len(rationale) = Min(3, Cardinality(matching))
                 /\ Cardinality(described) = Len(rationale)
                 /\ described \subseteq matching
                 /\ \A i \in 1..Len(rationale) :
                        /\ rationale[i].samples = patternMap[rationale[i].signature].sampleSize
                        /\ \A j \in (i + 1)..Len(rationale) :
                                lift(rationale[i].signature) >= lift(rationale[j].signature)
                 /\ \A left \in matching \ described, kept \in described :
                        lift(left) <= lift(kept)

\* assess has matched six aggregates of different lifts and described three,
\* the candidate order of the signatures not being the order of their lifts
C25_Witness ==
    /\ outcome.op = "assess"
    /\ Cardinality(MatchingSignatures(args)) = 6
    /\ Len(outcome.result.rationale) = 3
    /\ outcome.result.riskLift > 0
    /\ patternMap[getSignatures(args)[1]].preemptiveRiskLift
            < patternMap[getSignatures(args)[2]].preemptiveRiskLift

\* assess has found no aggregate for any signature of the decision
C25_WitnessNoMatch ==
    /\ outcome.op = "assess"
    /\ history # <<>>
    /\ MatchingSignatures(args) = {}

-----------------------------------------------------------------------------
(* The read-only calls of the two engines, classify and scoreDecision,     *)
(* interleaved in any order with the calls that write engine state:        *)
(* ClassificationEngine.recordOutcome and the calibration write of the     *)
(* RiskScoringEngine.  Every call draws its own arguments.                 *)

MaxEngineWrites == 1            \* writes to each engine in a behaviour

\* classify calls that take the trend from the violation window: a score of 55
\* at riskPosture 0.5, and a score of 67.65 at riskPosture 0.0403 and entropy 1
HistoryClassifications ==
    {[scoreResult |-> [decisionScore |-> 5500, dimensionScores |-> DimensionScoresWith(3)],
      context |-> ClassificationContext(5000, undefined, undefined, undefined,
                                        undefined, undefined)],
     [scoreResult |-> [decisionScore |-> 6765, dimensionScores |-> DimensionScoresWith(3)],
      context |-> ClassificationContext(403, <<SUnit>>, undefined, undefined,
                                        undefined, undefined)]}

\* scoreDecision calls
EngineScorings ==
    {call \in RangeArgs : /\ call.decision = Assessed(TypicalDecision, 9100, 1500)
                          /\ call.context.budgetPressure = <<25>>
                          /\ call.systemState.incidentActive}

\* answers after a call has returned: the result, and whether the same call
\* had already returned since the last write
Answered(known, call, result) ==
    [c \in (DOMAIN known) \cup {call} |->
        IF c = call THEN [result |-> result, repeated |-> call \in DOMAIN known]
        ELSE known[c]]

\* classify that also pushes the state it returns onto the violation window
ClassifyOfRecording(call) ==
    LET result == classify(call.scoreResult, call.context, violationHistory)
    IN  /\ outcome' = Returned("classify", 0, result)
        /\ answers' = [answers EXCEPT !.classify = Answered(@, call, result)]
        /\ violationHistory' = recordOutcome(violationHistory, historyWindowSize,
                                             result.state = "block", undefined)
        /\ UNCHANGED <<historyWindowSize, requestedWindowSize, recorded,
                       ovVars, seVars, pdVars, args, toVars, hfVars>>

\* ClassificationEngine.classify(scoreResult, context) with arguments of its own
ClassifyOf(call) ==
    LET result == classify(call.scoreResult, call.context, violationHistory)
    IN  /\ outcome' = Returned("classify", 0, result)
        /\ answers' = [answers EXCEPT !.classify = Answered(@, call, result)]
        /\ UNCHANGED <<ovVars, seVars, ceVars, pdVars, args, toVars, hfVars>>

\* RiskScoringEngine.scoreDecision(decision, context, systemState) with arguments
\* of its own
ScoreDecisionOf(call) ==
    LET result == scoreDecision(adaptiveMultipliers, call.decision, call.context,
                                call.systemState)
    IN  /\ outcome' = Returned("scoreDecision", 0, result)
        /\ answers' = [answers EXCEPT !.scoreDecision = Answered(@, call, result)]
        /\ UNCHANGED <<ovVars, seVars, ceVars, pdVars, args, toVars, hfVars>>

InitReadOnly ==
    /\ InitOverride
    /\ InitEngines
    /\ InitPreemptive
    /\ InitOptimization
    /\ InitFeedback
    /\ args = NoArgs
    /\ outcome = NoCall
    /\ answers = NoAnswers

NextReadOnly ==
    \/ \E call \in HistoryClassifications : ClassifyOf(call)
    \/ \E call \in EngineScorings : ScoreDecisionOf(call)
    \/ \E f \in WindowFeedbacks : Len(recorded) < MaxEngineWrites /\ RecordOutcome(f)
    \/ \E o \in ScoringObservations :
            /\ Len(calibrationWrites) < MaxEngineWrites
            /\ UpdateCalibrationFromFeedback(o, LearningRateMax)

SpecReadOnly == InitReadOnly /\ [][NextReadOnly]_vars

\* a call answered before and after the step was answered the same
SameAnswers(before, after) ==
    \A call \in (DOMAIN before) \cap (DOMAIN after) : before[call].result = after[call].result

\* C26: a classify call leaves the violation history unchanged and a
\* scoreDecision call leaves the adaptive multipliers unchanged, so calls with
\* the same arguments, in any order and interleaving with no write in between,
\* return the same results.
C26_ReadOnlyCallsWriteNothing ==
    [][outcome'.op \in {"classify", "scoreDecision"} =>
        /\ violationHistory' = violationHistory
        /\ adaptiveMultipliers' = adaptiveMultipliers
        /\ SameAnswers(answers.classify, answers'.classify)
        /\ SameAnswers(answers.scoreDecision, answers'.scoreDecision)]_vars

\* after writes to both engines, every call has been answered since the last
\* write, a classify call and a scoreDecision call more than once
C26_Witness ==
    /\ recorded # <<>> /\ calibrationWrites # <<>>
    /\ DOMAIN answers.classify = HistoryClassifications
    /\ DOMAIN answers.scoreDecision = EngineScorings
    /\ \E call \in HistoryClassifications : answers.classify[call].repeated
    /\ \E call \in EngineScorings : answers.scoreDecision[call].repeated

\* C27: when no preemptive escalation applies, the state classify returns is
\* auto-approve exactly when decisionScore >= thresholdBand.autoApproveMin of the
\* same result, block exactly when decisionScore <= thresholdBand.blockMax, and
\* flag-for-review otherwise.
C27_StateAgreesWithReturnedBand ==
    \A call \in DOMAIN answers.classify :
        LET result == answers.classify[call].result
            decisionScore == call.scoreResult.decisionScore
        IN  result.state = result.baseState =>
                /\ result.state = "auto-approve" <=>
                        decisionScore >= result.thresholdBand.autoApproveMin
                /\ result.state = "block" <=>
                        (/\ decisionScore < result.thresholdBand.autoApproveMin
                         /\ decisionScore <= result.thresholdBand.blockMax)

-----------------------------------------------------------------------------
(* A PreemptiveDetectionLayer of some configuration beside a               *)
(* ClassificationEngine: outcomes of a decision are recorded, the decision *)
(* is assessed, and it is classified with the assessed lift as             *)
(* preemptiveRiskLift and no threshold overrides.                          *)

MaxAssessed == 4                \* outcomes recorded in a behaviour

\* constructor options: the defaults, thresholds below the classifier's defaults
\* 0.14 and 0.3, and thresholds above them
EscalationOptions ==
    {DefaultOptions,
     [DefaultOptions EXCEPT !.reviewEscalationLiftThreshold = 5,
                            !.blockEscalationLiftThreshold = 20],
     [DefaultOptions EXCEPT !.reviewEscalationLiftThreshold = 20,
                            !.blockEscalationLiftThreshold = 50]}

\* the decision under evaluation with its score result (decision score 99 or
\* 55) and a classification context without threshold overrides
AssessedCalls ==
    {[decision |-> TransferDecision,
      scoreResult |-> [decisionScore |-> score, dimensionScores |-> DimensionScoresWith(3)],
      context |-> ClassificationContext(5000, undefined, undefined, undefined,
                                        undefined, undefined)] : score \in {5500, 9900}}

InitEscalation ==
    /\ InitOverride
    /\ InitEngines
    /\ options \in EscalationOptions
    /\ InitOptimization
    /\ InitFeedback
    /\ history = <<>>
    /\ patternMap = <<>>
    /\ reported = <<>>
    /\ args \in AssessedCalls
    /\ outcome = NoCall
    /\ answers = NoAnswers

\* the assessment of the decision under evaluation
Assessment == assess(options, patternMap, args.decision)

\* classificationEngine.classify(scoreResult, { ..., preemptiveRiskLift:
\* preemptiveLayer.assess(decision).riskLift })
ClassifyAssessed ==
    /\ outcome' = Returned("classify", 0,
            classify(args.scoreResult,
                     [args.context EXCEPT !.preemptiveRiskLift = <<Assessment.riskLift>>],
                     violationHistory))
    /\ UNCHANGED <<ovVars, seVars, ceVars, pdVars, args, answers, toVars, hfVars>>

NextEscalation ==
    \/ \E report \in OutcomeReports :
            /\ Len(reported) < MaxAssessed
            /\ RecordDecisionOutcome(args.decision, report)
    \/ ClassifyAssessed

SpecEscalation == InitEscalation /\ [][NextEscalation]_vars

\* the state classify returned is at least as conservative as the state the layer
\* recommends for the same lift
ClassifierFollowsRecommendation ==
    outcome.op = "classify" =>
        LET recommended ==
                recommendClassificationEscalation(options, Assessment).recommendedState
        IN  recommended # undefined =>
                StateRank(outcome.result.state) >= StateRank(recommended[1])

\* C28 (as stated): for every configuration of the layer, classify called with
\* the assessed riskLift and no threshold overrides returns a state at least as
\* conservative as the one recommendClassificationEscalation recommends.
C28_ClassifierFollowsEveryLayer == ClassifierFollowsRecommendation

\* C28 (amended): for a layer whose review and block thresholds are at least the
\* classifier's defaults 0.14 and 0.3, classify called with the assessed
\* riskLift and no threshold overrides returns a state at least as conservative
\* as the one recommendClassificationEscalation recommends.
C28_ClassifierFollowsStricterLayer ==
    (/\ options.reviewEscalationLiftThreshold >= 14
     /\ options.blockEscalationLiftThreshold >= 30) => ClassifierFollowsRecommendation

\* a layer with the default thresholds has recommended block for a score of 99,
\* and classify has returned block
C28_Witness ==
    /\ options = DefaultOptions
    /\ outcome.op = "classify"
    /\ args.scoreResult.decisionScore = 9900
    /\ outcome.result.baseState = "auto-approve"
    /\ recommendClassificationEscalation(options, Assessment).recommendedState = <<"block">>
    /\ outcome.result.state = "block"

-----------------------------------------------------------------------------
(* The multipliers a calibration write may change.                         *)

\* the dimensions whose multiplier the step changes
ChangedMultipliers == {d \in RiskDimensions : adaptiveMultipliers'[d] # adaptiveMultipliers[d]}

\* C29: the calibration write of an override never changes the multipliers of
\* simulationImpact, opportunityCostProjection and strategicMisalignment; it
\* changes cooperativeSystemStability and reputationalImpact only when the
\* observation reports a stability incident, and financialCost only when its
\* cost-overrun ratio exceeds 1; so an APPROVED override changes at most
\* regulatoryExposure, operationalRisk and predictedComplianceProbability.
C29_CalibrationTouchesFewMultipliers ==
    [][SubmitSucceeds =>
            LET fed == fedObservations'[Len(fedObservations')]
            IN  /\ ChangedMultipliers \cap {"simulationImpact", "opportunityCostProjection",
                                            "strategicMisalignment"} = {}
                /\ ~fed.stabilityIncidentOccurred =>
                        ChangedMultipliers \cap {"cooperativeSystemStability",
                                                 "reputationalImpact"} = {}
                /\ fed.costOverrunRatio <= 100 => "financialCost" \notin ChangedMultipliers
                /\ SubmittedRecord.verdict = "APPROVED" =>
                        ChangedMultipliers \subseteq
                            {"regulatoryExposure", "operationalRisk",
                             "predictedComplianceProbability"}]_vars

\* the first override, an approval, has changed exactly regulatoryExposure,
\* operationalRisk and predictedComplianceProbability
C29_Witness ==
    /\ outcome.op = "submitOverride"
    /\ outcome.result = "ok"
    /\ Len(submitted) = 1
    /\ submitted[1].verdict = "APPROVED"
    /\ {d \in RiskDimensions : adaptiveMultipliers[d] # InitialMultipliers[d]} =
            {"regulatoryExposure", "operationalRisk", "predictedComplianceProbability"}

\* a rejection that reported a stability incident and a cost overrun has changed
\* cooperativeSystemStability, reputationalImpact and financialCost
C29_WitnessIncident ==
    /\ outcome.op = "submitOverride"
    /\ outcome.result = "ok"
    /\ Len(submitted) = 1
    /\ fedObservations[1].stabilityIncidentOccurred
    /\ fedObservations[1].costOverrunRatio > 100
    /\ {"cooperativeSystemStability", "reputationalImpact", "financialCost"} \subseteq
            {d \in RiskDimensions : adaptiveMultipliers[d] # InitialMultipliers[d]}

-----------------------------------------------------------------------------
(* A HistoricalFeedbackIntegrator whose history is short: four records     *)
(* evaluated from three on, or two records evaluated from two on, so that  *)
(* one batch can fill it.                                                  *)

MaxAccumulated == 6             \* records passed to integrate in a behaviour

ShortFeedbackOptionSets ==
    {[DefaultFeedbackOptions EXCEPT !.maxHistorySize = 4, !.minimumSampleSize = 3],
     [DefaultFeedbackOptions EXCEPT !.maxHistorySize = 2, !.minimumSampleSize = 2]}

InitAccumulate ==
    /\ InitOverride
    /\ InitEngines
    /\ InitPreemptive
    /\ InitOptimization
    /\ \E opts \in ShortFeedbackOptionSets : InitFeedbackWith(opts)
    /\ args = NoArgs
    /\ outcome = NoCall
    /\ answers = NoAnswers

NextAccumulate ==
    \E records \in FeedbackBatches :
        feedbackCount + Len(records) <= MaxAccumulated /\ Integrate(records)

SpecAccumulate == InitAccumulate /\ [][NextAccumulate]_vars

\* the step is an integrate call with a non-empty batch
IntegratesBatch == outcome'.op = "integrate" /\ feedbackCount' > feedbackCount

\* the number of records of the step's batch
BatchSize == feedbackCount' - feedbackCount

\* the records retained before the step that the step still retains
StillRetained == Max(0, Len(feedbackHistory') - BatchSize)

\* integrate accumulates: the history after a non-empty call is the most recent
\* maxHistorySize of the records retained before and the batch, whether or not
\* the call returns null; and a call that does not return null has applied the
\* calibration computed over all the records then retained
Accumulates ==
    IntegratesBatch =>
        /\ Len(feedbackHistory') =
                Min(feedbackOptions.maxHistorySize, Len(feedbackHistory) + BatchSize)
        /\ \A i \in 1..StillRetained :
                feedbackHistory'[i] = feedbackHistory[Len(feedbackHistory) - StillRetained + i]
        /\ outcome'.result # undefined <=>
                Len(feedbackHistory') >= feedbackOptions.minimumSampleSize
        /\ outcome'.result # undefined =>
                LET report == integration(feedbackHistory')
                IN  /\ outcome'.result = <<report>>
                    /\ adaptiveMultipliers' =
                            applyAdaptiveMultiplierDeltas(adaptiveMultipliers,
                                report.appliedWeightDeltas, feedbackOptions.weightLearningRate)
                    /\ assumptions' =
                            applyAssumptionDeltas(assumptions,
                                report.appliedSimulationAssumptionDeltas,
                                feedbackOptions.simulationLearningRate)

\* C30 (as stated): integrate accumulates across calls, and every non-empty call
\* after the first calibration derives its deltas from a sample that holds
\* records of the previous calibration's sample.
C30_EveryLaterCallReusesRecords ==
    [][/\ Accumulates
       /\ (IntegratesBatch /\ calibrationWrites # <<>>) =>
                /\ outcome'.result # undefined
                /\ StillRetained > 0]_vars

\* C30 (amended): integrate accumulates across calls, and every call after the
\* first calibration whose batch is non-empty and smaller than maxHistorySize
\* derives its deltas from a sample that holds records of the previous
\* calibration's sample.
C30_LaterSmallerBatchReusesRecords ==
    [][/\ Accumulates
       /\ (IntegratesBatch /\ calibrationWrites # <<>>) =>
                /\ outcome'.result # undefined
                /\ BatchSize < feedbackOptions.maxHistorySize => StillRetained > 0]_vars

\* with a history of four evaluated from three on: two calls returned null or
\* calibrated, and the latest call calibrated again on a full history that
\* holds records of the calibration before
C30_Witness ==
    /\ feedbackOptions.maxHistorySize = 4
    /\ outcome.op = "integrate"
    /\ outcome.result # undefined
    /\ Len(feedbackHistory) = 4
    /\ feedbackCount = 5
    /\ Len(calibrationWrites) = 2

====
